---- MODULE Spec2Model ----
(***************************************************************************)
(* Model of the analytics service of mindful-minutes-api                   *)
(* (internal/services/analytics.go) and of its HTTP handlers               *)
(* (internal/handlers) over a session store.                               *)
(*                                                                         *)
(* Time.  An instant is an integer count of ticks since 2024-01-01T00:00Z; *)
(* a tick is a fraction of a second, because the store keeps created_at    *)
(* with sub-second precision.  A date string "2006-01-02" is the tuple     *)
(* <<year, month, day>>.  The server's local zone is UTC.                  *)
(***************************************************************************)
EXTENDS Integers, Sequences, FiniteSets, TLC

VARIABLES
    sessions,      \* rows of the sessions table (soft-deleted ones included)
    nextID,        \* next value of the SERIAL id sequence
    now,           \* the server clock, an instant
    pc,            \* position of the running call, "idle" when none runs
    call,          \* the exported function that was called
    args,          \* its arguments [user, year, limit]
    startNow,      \* history: the clock when the call started
    startSessions, \* history: the table when the call started
    sessionDates,  \* CalculateStreaks: result of getSessionDates
    today,         \* calculateCurrentStreak: local `today`
    streaks,       \* GetDashboardData: local `streaks`
    weekly,        \* GetWeeklyProgress: local `progress`
    yearly,        \* GetYearlyProgress: local `progress`
    year,          \* GetDashboardData: local `year` after defaulting
    recent,        \* GetDashboardData: local `recentSessions`
    result,        \* what the call returned: [status, err, data]
    request,       \* the HTTP request being handled, NoRequest for a direct call
    response,      \* the HTTP response written: [status, body]
    seen,          \* history: the tables there have been since the call started
    prev,          \* history: what a client keeps of calls that returned earlier
    users,         \* rows of the users table (soft-deleted ones included)
    startUsers,    \* history: the users table when the request arrived
    context        \* the gin context of the request after its handler chain

vars == <<sessions, nextID, now, pc, call, args, startNow, startSessions,
          sessionDates, today, streaks, weekly, yearly, year, recent, result,
          request, response, seen, prev, users, startUsers, context>>

callVars == <<pc, call, args, startNow, startSessions, sessionDates, today,
              streaks, weekly, yearly, year, recent, result, request,
              response>>

----------------------------------------------------------------------------
(* Bounds of the model *)

TicksPerSecond == 2
StreakWindow == 12
RecentWindow == 4
MaxSessions == 8
MaxUsers == 2

----------------------------------------------------------------------------
(* package time: the proleptic Gregorian calendar, in UTC *)

EpochYear == 2024
SecondsPerDay == 24 * 60 * 60
TicksPerDay == SecondsPerDay * TicksPerSecond
TicksPerHour == 60 * 60 * TicksPerSecond

IsLeap(y) == (y % 4 = 0 /\ y % 100 # 0) \/ y % 400 = 0

DaysInYear(y) == IF IsLeap(y) THEN 366 ELSE 365

DaysInMonth(y, m) ==
    IF m \in {4, 6, 9, 11} THEN 30
    ELSE IF m = 2 THEN (IF IsLeap(y) THEN 29 ELSE 28)
    ELSE 31

RECURSIVE DaysBeforeYear(_)
DaysBeforeYear(y) ==
    IF y <= EpochYear THEN 0 ELSE DaysBeforeYear(y - 1) + DaysInYear(y - 1)

RECURSIVE DaysBeforeMonth(_, _)
DaysBeforeMonth(y, m) ==
    IF m <= 1 THEN 0 ELSE DaysBeforeMonth(y, m - 1) + DaysInMonth(y, m - 1)

\* Day number (days since the epoch) of a calendar date.
DayNumber(y, m, d) == DaysBeforeYear(y) + DaysBeforeMonth(y, m) + (d - 1)

RECURSIVE YearOfDay(_, _)
YearOfDay(n, y) ==
    IF n < DaysBeforeYear(y + 1) THEN y ELSE YearOfDay(n, y + 1)

RECURSIVE MonthOfDay(_, _, _)
MonthOfDay(n, y, m) ==
    IF n < DaysBeforeYear(y) + DaysBeforeMonth(y, m + 1) THEN m
    ELSE MonthOfDay(n, y, m + 1)

\* Calendar date <<y, m, d>> of a day number, computed.
CivilOfDay(n) ==
    LET y == YearOfDay(n, EpochYear)
        m == MonthOfDay(n, y, 1)
    IN  <<y, m, n - DaysBeforeYear(y) - DaysBeforeMonth(y, m) + 1>>

\* The same as a table over the years the model covers.
LastYear == EpochYear + 3
CivilTable == [n \in 0..(DaysBeforeYear(LastYear + 1) - 1) |-> CivilOfDay(n)]

CivilFromDay(n) == CivilTable[n]

\* The day an instant falls on.
DayOf(t) == t \div TicksPerDay

\* t.Format("2006-01-02")
FormatDate(t) == CivilFromDay(DayOf(t))

\* time.Parse("2006-01-02", s): midnight UTC of that date.
ParseDate(s) == DayNumber(s[1], s[2], s[3]) * TicksPerDay

\* t.AddDate(0, 0, days): same time of day, `days` calendar days later.
AddDays(t, days) == t + days * TicksPerDay

\* t.Year()
YearOf(t) == CivilFromDay(DayOf(t))[1]

\* t.Format("Mon"); 2024-01-01 was a Monday.
WeekdayNames == <<"Mon", "Tue", "Wed", "Thu", "Fri", "Sat", "Sun">>
FormatWeekday(t) == WeekdayNames[(DayOf(t) % 7) + 1]

\* time.Date(y, m, d, hh, mm, ss, 0, time.UTC) plus `frac` ticks.
Instant(y, m, d, hh, mm, ss, frac) ==
    (DayNumber(y, m, d) * SecondsPerDay + hh * 3600 + mm * 60 + ss)
        * TicksPerSecond + frac

\* time.Date(y, m, 1, 0, 0, 0, 0, time.UTC)
MonthStart(y, m) == Instant(y, m, 1, 0, 0, 0, 0)

\* monthStart.AddDate(0, 1, 0).Add(-time.Second)
MonthEnd(y, m) ==
    (IF m = 12 THEN MonthStart(y + 1, 1) ELSE MonthStart(y, m + 1))
        - TicksPerSecond

----------------------------------------------------------------------------
(* The sessions table.  A row is                                           *)
(* [id, user_id, created_at, duration_seconds, deleted]; `deleted` stands  *)
(* for deleted_at IS NOT NULL.                                             *)

Users == {"u1", "u2"}

\* "user_id = ?" without gorm's soft-delete scope.
SessionsWithDeleted(S, userID) == {s \in S : s.user_id = userID}

\* "user_id = ? AND deleted_at IS NULL"
LiveSessions(S, userID) == {s \in S : s.user_id = userID /\ ~s.deleted}

\* SQL DATE(created_at): the calendar day of the timestamp.
SQLDate(t) == DayOf(t)

\* SQL COALESCE(SUM(duration_seconds), 0) over a set of rows.
RECURSIVE SumDuration(_)
SumDuration(S) ==
    IF S = {} THEN 0
    ELSE LET s == CHOOSE x \in S : TRUE
         IN  s.duration_seconds + SumDuration(S \ {s})

\* ORDER BY session_date DESC over DISTINCT dates, plucked into strings.
RECURSIVE OrderDatesDesc(_)
OrderDatesDesc(D) ==
    IF D = {} THEN <<>>
    ELSE LET top == CHOOSE d \in D : \A e \in D : e <= d
         IN  <<CivilFromDay(top)>> \o OrderDatesDesc(D \ {top})

\* A variant of getSessionDates that forgets the soft-delete filter.
getSessionDatesUnscoped(S, userID) ==
    OrderDatesDesc({SQLDate(s.created_at) : s \in {x \in S : x.user_id = userID}})

getSessionDates(S, userID) ==
    OrderDatesDesc({SQLDate(s.created_at) : s \in LiveSessions(S, userID)})

----------------------------------------------------------------------------
(* Streaks *)

Reverse(seq) == [i \in 1..Len(seq) |-> seq[Len(seq) + 1 - i]]

Max(a, b) == IF a > b THEN a ELSE b

\* The loop of calculateLongestStreak from index i on (1-based).
RECURSIVE LongestLoop(_, _, _, _)
LongestLoop(ascending, i, currentStreak, longestStreak) ==
    IF i > Len(ascending) THEN Max(currentStreak, longestStreak)
    ELSE LET prevDate == ParseDate(ascending[i - 1])
             currDate == ParseDate(ascending[i])
         IN  IF currDate - prevDate = 24 * TicksPerHour
             THEN LongestLoop(ascending, i + 1, currentStreak + 1, longestStreak)
             ELSE LongestLoop(ascending, i + 1, 1,
                              Max(currentStreak, longestStreak))

\* A variant of the loop that drops the update after the loop.
RECURSIVE LongestLoopNoFinal(_, _, _, _)
LongestLoopNoFinal(ascending, i, currentStreak, longestStreak) ==
    IF i > Len(ascending) THEN longestStreak
    ELSE LET prevDate == ParseDate(ascending[i - 1])
             currDate == ParseDate(ascending[i])
         IN  IF currDate - prevDate = 24 * TicksPerHour
             THEN LongestLoopNoFinal(ascending, i + 1, currentStreak + 1,
                                     longestStreak)
             ELSE LongestLoopNoFinal(ascending, i + 1, 1,
                                     Max(currentStreak, longestStreak))

calculateLongestStreakNoFinal(dates) ==
    IF Len(dates) = 0 THEN 0
    ELSE LongestLoopNoFinal(Reverse(dates), 2, 1, 1)

\* A variant that never starts a new run at a gap.
calculateLongestStreakNoReset(dates) == Len(dates)

calculateLongestStreak(dates) ==
    IF Len(dates) = 0 THEN 0
    ELSE LongestLoop(Reverse(dates), 2, 1, 1)

\* The counting loop of calculateCurrentStreak from index i on.
RECURSIVE CurrentLoop(_, _, _, _)
CurrentLoop(dates, i, expectedDate, currentStreak) ==
    IF i > Len(dates) THEN currentStreak
    ELSE LET sessionDate == ParseDate(dates[i])
         IN  IF FormatDate(sessionDate) = FormatDate(expectedDate)
             THEN CurrentLoop(dates, i + 1, AddDays(expectedDate, -1),
                              currentStreak + 1)
             ELSE currentStreak

\* A variant that anchors at the most recent date whatever its age.
calculateCurrentStreakNoAnchor(dates, todayStr, yesterdayStr) ==
    IF Len(dates) = 0 THEN 0
    ELSE CurrentLoop(dates, 1, ParseDate(dates[1]), 0)

\* A variant that accepts today only as the start date.
calculateCurrentStreakTodayOnly(dates, todayStr, yesterdayStr) ==
    IF Len(dates) = 0 THEN 0
    ELSE IF dates[1] = todayStr THEN CurrentLoop(dates, 1, ParseDate(todayStr), 0)
    ELSE 0

\* A variant that counts on over a gap.
calculateCurrentStreakNoBreak(dates, todayStr, yesterdayStr) ==
    IF Len(dates) = 0 THEN 0
    ELSE IF dates[1] = todayStr \/ dates[1] = yesterdayStr THEN Len(dates)
    ELSE 0

\* todayStr and yesterdayStr are the two values read from the clock.
calculateCurrentStreak(dates, todayStr, yesterdayStr) ==
    IF Len(dates) = 0 THEN 0
    ELSE IF dates[1] = todayStr
         THEN CurrentLoop(dates, 1, ParseDate(todayStr), 0)
    ELSE IF dates[1] = yesterdayStr
         THEN CurrentLoop(dates, 1, ParseDate(yesterdayStr), 0)
    ELSE 0

----------------------------------------------------------------------------
(* Weekly and yearly progress, recent sessions *)

\* A variant of WeeklyEntry whose loop runs from 7 days ago to yesterday.
WeeklyEntryOffByOne(S, userID, clock, i) ==
    LET date == AddDays(clock, -(i + 1))
        dateStr == FormatDate(date)
        totalSeconds ==
            SumDuration({s \in LiveSessions(S, userID) :
                            CivilFromDay(SQLDate(s.created_at)) = dateStr})
    IN  [day |-> FormatWeekday(date), date |-> dateStr,
         minutes |-> totalSeconds \div 60]

\* A variant of WeeklyEntry that forgets the soft-delete filter.
WeeklyEntryUnscoped(S, userID, clock, i) ==
    LET date == AddDays(clock, -i)
        dateStr == FormatDate(date)
        totalSeconds ==
            SumDuration({s \in S :
                            /\ s.user_id = userID
                            /\ CivilFromDay(SQLDate(s.created_at)) = dateStr})
    IN  [day |-> FormatWeekday(date), date |-> dateStr,
         minutes |-> totalSeconds \div 60]

\* One iteration of the loop of GetWeeklyProgress: the clock is read, the
\* sum for that date is queried, the entry is built.
WeeklyEntry(S, userID, clock, i) ==
    LET date == AddDays(clock, -i)
        dateStr == FormatDate(date)
        totalSeconds ==
            SumDuration({s \in LiveSessions(S, userID) :
                            CivilFromDay(SQLDate(s.created_at)) = dateStr})
    IN  [day |-> FormatWeekday(date), date |-> dateStr,
         minutes |-> totalSeconds \div 60]

MonthNames == <<"Jan", "Feb", "Mar", "Apr", "May", "Jun",
                "Jul", "Aug", "Sep", "Oct", "Nov", "Dec">>

\* A variant of YearlyEntry whose range ends just before the next month.
YearlyEntryHalfOpen(S, userID, y, i) ==
    LET monthStart == MonthStart(y, i + 1)
        nextStart == MonthEnd(y, i + 1) + TicksPerSecond
        totalSeconds ==
            SumDuration({s \in LiveSessions(S, userID) :
                            /\ s.created_at >= monthStart
                            /\ s.created_at < nextStart})
    IN  [month |-> MonthNames[i + 1],
         hours |-> [num |-> totalSeconds, den |-> 3600],
         minutes |-> totalSeconds \div 60]

\* One iteration of the loop of GetYearlyProgress, i the 0-based index.
\* hours is the exact quotient num / den.
YearlyEntry(S, userID, y, i) ==
    LET monthStart == MonthStart(y, i + 1)
        monthEnd == MonthEnd(y, i + 1)
        totalSeconds ==
            SumDuration({s \in LiveSessions(S, userID) :
                            /\ s.created_at >= monthStart
                            /\ s.created_at <= monthEnd})
    IN  [month |-> MonthNames[i + 1],
         hours |-> [num |-> totalSeconds, den |-> 3600],
         minutes |-> totalSeconds \div 60]

\* Every sequence holding the rows of S once, latest created_at first; rows
\* with equal created_at come in an order the store picks.
RECURSIVE OrderCreatedDesc(_)
OrderCreatedDesc(S) ==
    IF S = {} THEN {<<>>}
    ELSE UNION {{<<s>> \o rest : rest \in OrderCreatedDesc(S \ {s})} :
                  s \in {x \in S : \A z \in S : z.created_at <= x.created_at}}

Prefix(seq, n) == SubSeq(seq, 1, IF n < Len(seq) THEN n ELSE Len(seq))

\* GetRecentSessions without the replacement of a limit out of range.
GetRecentSessionsAsGiven(S, userID, limit) ==
    {Prefix(seq, Max(limit, 0)) :
        seq \in OrderCreatedDesc(LiveSessions(S, userID))}

\* GetRecentSessions with ORDER BY created_at ASC.
GetRecentSessionsOldestFirst(S, userID, limit) ==
    LET lim == IF limit <= 0 \/ limit > 100 THEN 5 ELSE limit
    IN  {Prefix(Reverse(seq), lim) :
            seq \in OrderCreatedDesc(LiveSessions(S, userID))}

\* The possible results of GetRecentSessions.
GetRecentSessions(S, userID, limit) ==
    LET lim == IF limit <= 0 \/ limit > 100 THEN 5 ELSE limit
    IN  {Prefix(seq, lim) : seq \in OrderCreatedDesc(LiveSessions(S, userID))}

----------------------------------------------------------------------------
(* The calls.  One call runs at a time; each store query and each read of  *)
(* the clock is a step, so that the clock and the table can change between *)
(* two steps of a call.                                                    *)

NoStreaks == [current |-> 0, longest |-> 0]
NoDate == <<0, 0, 0>>
NoArgs == [year |-> 0, limit |-> 0, user |-> ""]
NoData == [user |-> "", streaks |-> NoStreaks, weekly_progress |-> <<>>,
           yearly_progress |-> <<>>, recent_sessions |-> <<>>]
NoResult == [status |-> "none", err |-> "", data |-> NoData]
NoRequest == [handler |-> "none"]
NoResponse == [status |-> 0, body |-> [error |-> ""]]
NoContext == [user |-> [kind |-> "absent", id |-> ""], aborted |-> FALSE,
              handled |-> FALSE]
ErrorResponse(code, msg) == [status |-> code, body |-> [error |-> msg]]

\* handlers.GetDashboard, after services.GetDashboardData has returned res;
\* a direct call writes no response.
Respond(req, res) ==
    IF req.handler # "GetDashboard" THEN NoResponse
    ELSE IF res.status = "error"
    THEN [status |-> 500,
          body |-> [error |-> "Failed to retrieve dashboard data",
                    details |-> res.err]]
    ELSE [status |-> 200, body |-> res.data]
NoPrev == [args |-> NoArgs, tables |-> {}, date |-> NoDate, data |-> NoData]

\* return nil, err: the error of the store query q, as the store gave it.
Failed(q) == [status |-> "error", err |-> q, data |-> NoData]

IdleCall ==
    /\ pc = "idle"
    /\ call = "none"
    /\ args = NoArgs
    /\ startNow = 0
    /\ startSessions = {}
    /\ sessionDates = <<>>
    /\ today = NoDate
    /\ streaks = NoStreaks
    /\ weekly = <<>>
    /\ yearly = <<>>
    /\ year = 0
    /\ recent = <<>>
    /\ result = NoResult
    /\ request = NoRequest
    /\ response = NoResponse
    /\ seen = {}
    /\ context = NoContext
    /\ startUsers = {}

\* A call starts on behalf of the request req (NoRequest when the function
\* is called directly): fn is the exported function, a its arguments, first
\* its first step.
StartAt(fn, req, a, first) ==
    /\ pc = "idle"
    /\ pc' = first
    /\ call' = fn
    /\ request' = req
    /\ args' = a
    /\ startNow' = now
    /\ startSessions' = sessions
    /\ startUsers' = users
    /\ seen' = {sessions}
    /\ UNCHANGED <<users, context, sessions, nextID, now,
                   sessionDates, today, streaks, weekly,
                   yearly, year, recent, result, response, prev>>

Start(fn, req, a) == StartAt(fn, req, a, "getSessionDates")

Begin(fn, a) == Start(fn, NoRequest, a)

\* QueryFails returning, with the error, what the call has computed so far.
QueryFailsPartial ==
    /\ pc \in {"getSessionDates", "weekly", "yearly", "recent"}
    /\ pc' = "done"
    /\ LET res == [status |-> "error", err |-> pc,
                   data |-> [NoData EXCEPT !.streaks = streaks,
                                           !.weekly_progress = weekly,
                                           !.yearly_progress = yearly]]
       IN  result' = res /\ response' = Respond(request, res)
    /\ UNCHANGED <<users, startUsers, context, sessions, nextID, now,
                   call, args, startNow, startSessions,
                   request, seen, prev,
                   sessionDates, today, streaks, weekly, yearly, year, recent>>

\* A store query of the running call fails: the call returns the error.
QueryFails ==
    /\ pc \in {"getSessionDates", "weekly", "yearly", "recent"}
    /\ pc' = "done"
    /\ result' = Failed(pc)
    /\ response' = Respond(request, Failed(pc))
    /\ UNCHANGED <<users, startUsers, context, sessions, nextID, now,
                   call, args, startNow, startSessions,
                   request, seen, prev,
                   sessionDates, today, streaks, weekly, yearly, year, recent>>

\* CalculateStreaks: getSessionDates.
StreakDates ==
    /\ pc = "getSessionDates"
    /\ sessionDates' = getSessionDates(sessions, args.user)
    /\ pc' = "today"
    /\ UNCHANGED <<users, startUsers, context, sessions, nextID, now,
                   call, args, startNow, startSessions,
                   request, response, seen, prev,
                   today, streaks, weekly, yearly, year, recent, result>>

\* calculateCurrentStreak: today := time.Now().Format(...).
StreakToday ==
    /\ pc = "today"
    /\ today' = FormatDate(now)
    /\ pc' = "yesterday"
    /\ UNCHANGED <<users, startUsers, context, sessions, nextID, now,
                   call, args, startNow, startSessions,
                   request, response, seen, prev,
                   sessionDates, streaks, weekly, yearly, year, recent, result>>

\* calculateCurrentStreak: yesterday := time.Now().AddDate(0, 0, -1)..., and
\* the rest of CalculateStreaks, which reads nothing but its locals.
StreakYesterday ==
    /\ pc = "yesterday"
    /\ LET yesterday == FormatDate(AddDays(now, -1))
           info == [current |-> calculateCurrentStreak(sessionDates, today,
                                                       yesterday),
                    longest |-> calculateLongestStreak(sessionDates)]
       IN  /\ streaks' = info
           /\ IF call = "CalculateStreaks"
              THEN /\ pc' = "done"
                   /\ result' = [status |-> "ok", err |-> "",
                                 data |-> [NoData EXCEPT !.streaks = info]]
              ELSE /\ pc' = "weekly"
                   /\ result' = result
    /\ UNCHANGED <<users, startUsers, context, sessions, nextID, now,
                   call, args, startNow, startSessions,
                   request, response, seen, prev,
                   sessionDates, today, weekly, yearly, year, recent>>

\* GetWeeklyProgress: one iteration of its loop, i = 6 - Len(weekly).
WeeklyStep ==
    /\ pc = "weekly"
    /\ weekly' = Append(weekly,
                        WeeklyEntry(sessions, args.user, now, 6 - Len(weekly)))
    /\ pc' = IF Len(weekly') = 7 THEN "year" ELSE "weekly"
    /\ UNCHANGED <<users, startUsers, context, sessions, nextID, now,
                   call, args, startNow, startSessions,
                   request, response, seen, prev,
                   sessionDates, today, streaks, yearly, year, recent, result>>

\* GetDashboardData: if year <= 0 { year = time.Now().Year() }.
YearDefault ==
    /\ pc = "year"
    /\ year' = IF args.year <= 0 THEN YearOf(now) ELSE args.year
    /\ pc' = "yearly"
    /\ UNCHANGED <<users, startUsers, context, sessions, nextID, now,
                   call, args, startNow, startSessions,
                   request, response, seen, prev,
                   sessionDates, today, streaks, weekly, yearly, recent, result>>

\* GetYearlyProgress: one iteration of its loop.
YearlyStep ==
    /\ pc = "yearly"
    /\ yearly' = Append(yearly,
                        YearlyEntry(sessions, args.user, year, Len(yearly)))
    /\ pc' = IF Len(yearly') = 12 THEN "recent" ELSE "yearly"
    /\ UNCHANGED <<users, startUsers, context, sessions, nextID, now,
                   call, args, startNow, startSessions,
                   request, response, seen, prev,
                   sessionDates, today, streaks, weekly, year, recent, result>>

\* GetRecentSessions, and the DashboardData that GetDashboardData returns.
RecentStep ==
    /\ pc = "recent"
    /\ \E rows \in GetRecentSessions(sessions, args.user, args.limit) :
          LET data == IF call = "GetRecentSessions"
                      THEN [NoData EXCEPT !.recent_sessions = rows]
                      ELSE [user |-> args.user,
                            streaks |-> streaks,
                            weekly_progress |-> weekly,
                            yearly_progress |-> yearly,
                            recent_sessions |-> rows]
              res == [status |-> "ok", err |-> "", data |-> data]
          IN  /\ recent' = rows
              /\ result' = res
              /\ response' = Respond(request, res)
    /\ pc' = "done"
    /\ UNCHANGED <<users, startUsers, context, sessions, nextID, now,
                   call, args, startNow, startSessions,
                   request, seen, prev,
                   sessionDates, today, streaks, weekly, yearly, year>>

\* The caller has taken the result; nothing of the call is kept.
TakeResult ==
    /\ pc = "done"
    /\ pc' = "idle"
    /\ call' = "none"
    /\ args' = NoArgs
    /\ startNow' = 0
    /\ startSessions' = {}
    /\ sessionDates' = <<>>
    /\ today' = NoDate
    /\ streaks' = NoStreaks
    /\ weekly' = <<>>
    /\ yearly' = <<>>
    /\ year' = 0
    /\ recent' = <<>>
    /\ result' = NoResult
    /\ request' = NoRequest
    /\ response' = NoResponse
    /\ seen' = {}
    /\ context' = NoContext
    /\ startUsers' = {}
    /\ UNCHANGED <<users, sessions, nextID, now>>

Return == TakeResult /\ UNCHANGED prev

----------------------------------------------------------------------------
(* The clock and the writers of the table *)

\* Time passes: the clock moves to a later instant t.
Tick(t) ==
    /\ t > now
    /\ now' = t
    /\ UNCHANGED <<users, startUsers, context, sessions, nextID, callVars,
                   seen, prev>>

----------------------------------------------------------------------------
(* The HTTP handlers.  A text (a query parameter, a path parameter) is the *)
(* sequence of its characters; the texts of the model are short, so that   *)
(* the range errors of strconv cannot occur.                               *)

DigitChars == <<"0", "1", "2", "3", "4", "5", "6", "7", "8", "9">>
IsDigit(c) == \E i \in 1..10 : DigitChars[i] = c
DigitValue(c) == (CHOOSE i \in 1..10 : DigitChars[i] = c) - 1
AllDigits(str) == Len(str) > 0 /\ \A i \in 1..Len(str) : IsDigit(str[i])

RECURSIVE ParseDigits(_)
ParseDigits(str) ==
    IF str = <<>> THEN 0
    ELSE 10 * ParseDigits(SubSeq(str, 1, Len(str) - 1))
         + DigitValue(str[Len(str)])

\* strconv.Atoi: an optional sign, then decimal digits.
Atoi(str) ==
    LET signed == Len(str) > 0 /\ str[1] \in {"+", "-"}
        digits == IF signed THEN Tail(str) ELSE str
    IN  IF ~AllDigits(digits) THEN [ok |-> FALSE, val |-> 0]
        ELSE [ok |-> TRUE,
              val |-> IF signed /\ str[1] = "-" THEN 0 - ParseDigits(digits)
                      ELSE ParseDigits(digits)]

\* strconv.ParseUint(s, 10, 32): decimal digits, no sign.
ParseUint(str) ==
    IF AllDigits(str) THEN [ok |-> TRUE, val |-> ParseDigits(str)]
    ELSE [ok |-> FALSE, val |-> 0]

\* The value of the key "user" in the gin context: absent, a value that is
\* not a models.User, or the models.User the middleware has set.
NoUser == [kind |-> "absent", id |-> ""]
NotAUser == [kind |-> "string", id |-> "invalid_user_type"]
ContextUser(u) == [kind |-> "User", id |-> u]
Nil == "nil"

\* GetCurrentUser without the type assertion on the value.
GetCurrentUserAny(ctx) == IF ctx.kind = "absent" THEN Nil ELSE ctx.id

\* auth.GetCurrentUser: the user of the context, or nil.
GetCurrentUser(ctx) == IF ctx.kind = "User" THEN ctx.id ELSE Nil

Unauthorized == ErrorResponse(401, "User not found")

\* parseYear without its range check.
parseYearAnyNumber(yearStr) ==
    IF yearStr = <<>> THEN 0
    ELSE LET r == Atoi(yearStr) IN IF ~r.ok THEN 0 ELSE r.val

\* parseYear: the `year` query parameter, 0 for "use the current year".
parseYear(yearStr) ==
    IF yearStr = <<>> THEN 0
    ELSE LET r == Atoi(yearStr)
         IN  IF ~r.ok \/ r.val < 1900 \/ r.val > 3000 THEN 0 ELSE r.val

\* parseSessionLimit: the `sessions` query parameter.
parseSessionLimit(limitStr) ==
    IF limitStr = <<>> THEN 5
    ELSE LET r == Atoi(limitStr)
         IN  IF ~r.ok \/ r.val <= 0 \/ r.val > 100 THEN 5 ELSE r.val

\* What a handler that runs in one piece does: the response it writes and
\* the table it leaves.
Outcome(resp, S, nid) == [response |-> resp, sessions |-> S, nextID |-> nid]

validSessionTypes ==
    {"mindfulness", "breathing", "metta", "body_scan", "walking", "other"}

isValidSessionType(sessionType) == sessionType \in validSessionTypes

\* A JSON body is the record of the fields it gives, or SyntaxError.
SyntaxError == [syntax_error |-> TRUE]
Field(body, name, zero) == IF name \in DOMAIN body THEN body[name] ELSE zero

\* ShouldBindJSON with `required` alone on DurationSeconds.
ShouldBindJSONRequiredOnly(body) ==
    LET req == [DurationSeconds |-> Field(body, "duration_seconds", 0),
                SessionType |-> Field(body, "session_type", ""),
                Notes |-> Field(body, "notes", "")]
    IN  [ok |-> /\ "syntax_error" \notin DOMAIN body
                /\ req.DurationSeconds # 0
                /\ req.SessionType # "",
         req |-> req]

\* c.ShouldBindJSON(&req) with CreateSessionRequest: a field the body does
\* not give keeps its zero value; `required` rejects the zero value and
\* `min=1` a number below 1.
ShouldBindJSON(body) ==
    LET req == [DurationSeconds |-> Field(body, "duration_seconds", 0),
                SessionType |-> Field(body, "session_type", ""),
                Notes |-> Field(body, "notes", "")]
    IN  [ok |-> /\ "syntax_error" \notin DOMAIN body
                /\ req.DurationSeconds # 0
                /\ req.DurationSeconds >= 1
                /\ req.SessionType # "",
         req |-> req]

\* handlers.CreateSession on the table S: dbError tells whether
\* database.DB.Create fails.  The row is stamped with the clock.
CreateSessionOutcome(S, nid, clock, ctx, body, dbError) ==
    LET user == GetCurrentUser(ctx)
        bound == ShouldBindJSON(body)
        session == [id |-> nid, user_id |-> user, created_at |-> clock,
                    duration_seconds |-> bound.req.DurationSeconds,
                    deleted |-> FALSE,
                    session_type |-> bound.req.SessionType,
                    notes |-> bound.req.Notes]
    IN  IF user = Nil THEN Outcome(Unauthorized, S, nid)
        ELSE IF ~bound.ok
        THEN Outcome(ErrorResponse(400, "Invalid request data"), S, nid)
        ELSE IF ~isValidSessionType(bound.req.SessionType)
        THEN Outcome(ErrorResponse(400, "Invalid session type"), S, nid)
        ELSE IF dbError
        THEN Outcome(ErrorResponse(500, "Failed to create session"), S, nid)
        ELSE Outcome([status |-> 201,
                      body |-> [message |-> "Session created successfully",
                                session |-> session]],
                     S \cup {session}, nid + 1)

\* DeleteSession looking the session up by its id alone.
DeleteSessionOutcomeAnyOwner(S, nid, ctx, idStr, dbError) ==
    LET user == GetCurrentUser(ctx)
        sessionID == ParseUint(idStr)
        found == IF dbError = "First" THEN {}
                 ELSE {s \in S : s.id = sessionID.val /\ ~s.deleted}
    IN  IF user = Nil THEN Outcome(Unauthorized, S, nid)
        ELSE IF ~sessionID.ok
        THEN Outcome(ErrorResponse(400, "Invalid session ID"), S, nid)
        ELSE IF found = {}
        THEN Outcome(ErrorResponse(404, "Session not found"), S, nid)
        ELSE IF dbError = "Delete"
        THEN Outcome(ErrorResponse(500, "Failed to delete session"), S, nid)
        ELSE Outcome([status |-> 200,
                      body |-> [message |-> "Session deleted successfully"]],
                     (S \ found) \cup {[s EXCEPT !.deleted = TRUE] : s \in found},
                     nid)

\* DeleteSession finding soft-deleted sessions too.
DeleteSessionOutcomeUnscoped(S, nid, ctx, idStr, dbError) ==
    LET user == GetCurrentUser(ctx)
        sessionID == ParseUint(idStr)
        found == IF dbError = "First" THEN {}
                 ELSE {s \in S : /\ s.id = sessionID.val
                                 /\ s.user_id = user}
    IN  IF user = Nil THEN Outcome(Unauthorized, S, nid)
        ELSE IF ~sessionID.ok
        THEN Outcome(ErrorResponse(400, "Invalid session ID"), S, nid)
        ELSE IF found = {}
        THEN Outcome(ErrorResponse(404, "Session not found"), S, nid)
        ELSE IF dbError = "Delete"
        THEN Outcome(ErrorResponse(500, "Failed to delete session"), S, nid)
        ELSE Outcome([status |-> 200,
                      body |-> [message |-> "Session deleted successfully"]],
                     (S \ found) \cup {[s EXCEPT !.deleted = TRUE] : s \in found},
                     nid)

\* handlers.DeleteSession on the table S: dbError names the store call that
\* fails, "" when none does.
DeleteSessionOutcome(S, nid, ctx, idStr, dbError) ==
    LET user == GetCurrentUser(ctx)
        sessionID == ParseUint(idStr)
        found == IF dbError = "First" THEN {}
                 ELSE {s \in S : /\ s.id = sessionID.val
                                 /\ s.user_id = user
                                 /\ ~s.deleted}
    IN  IF user = Nil THEN Outcome(Unauthorized, S, nid)
        ELSE IF ~sessionID.ok
        THEN Outcome(ErrorResponse(400, "Invalid session ID"), S, nid)
        ELSE IF found = {}
        THEN Outcome(ErrorResponse(404, "Session not found"), S, nid)
        ELSE IF dbError = "Delete"
        THEN Outcome(ErrorResponse(500, "Failed to delete session"), S, nid)
        ELSE Outcome([status |-> 200,
                      body |-> [message |-> "Session deleted successfully"]],
                     (S \ found) \cup {[s EXCEPT !.deleted = TRUE] : s \in found},
                     nid)

\* The rows of R in descending id order.
RECURSIVE OrderIDDesc(_)
OrderIDDesc(R) ==
    IF R = {} THEN <<>>
    ELSE LET top == CHOOSE s \in R : \A z \in R : z.id <= s.id
         IN  <<top>> \o OrderIDDesc(R \ {top})

\* GetSessions fetching limit rows rather than limit + 1.
GetSessionsOutcomeExactLimit(S, nid, ctx, limitStr, lastIDStr, dbError) ==
    LET user == GetCurrentUser(ctx)
        parsed == Atoi(IF limitStr = <<>> THEN <<"2", "0">> ELSE limitStr)
        limit == IF ~parsed.ok \/ parsed.val < 1 \/ parsed.val > 100
                 THEN 20 ELSE parsed.val
        cursor == ParseUint(lastIDStr)
        lastID == IF lastIDStr # <<>> /\ cursor.ok THEN cursor.val ELSE 0
        page == Prefix(OrderIDDesc({s \in LiveSessions(S, user) :
                                       lastID > 0 => s.id < lastID}), limit)
    IN  IF user = Nil THEN Outcome(Unauthorized, S, nid)
        ELSE IF dbError
        THEN Outcome(ErrorResponse(500, "Failed to retrieve sessions"), S, nid)
        ELSE Outcome([status |-> 200,
                      body |-> [sessions |-> page, next_id |-> 0,
                                has_more |-> FALSE]],
                     S, nid)

\* GetSessions whose page begins at the cursor row itself.
GetSessionsOutcomeInclusive(S, nid, ctx, limitStr, lastIDStr, dbError) ==
    LET user == GetCurrentUser(ctx)
        parsed == Atoi(IF limitStr = <<>> THEN <<"2", "0">> ELSE limitStr)
        limit == IF ~parsed.ok \/ parsed.val < 1 \/ parsed.val > 100
                 THEN 20 ELSE parsed.val
        cursor == ParseUint(lastIDStr)
        lastID == IF lastIDStr # <<>> /\ cursor.ok THEN cursor.val ELSE 0
        found == OrderIDDesc({s \in LiveSessions(S, user) :
                                 lastID > 0 => s.id <= lastID})
        fetched == Prefix(found, limit + 1)
        hasMore == Len(fetched) > limit
        page == IF hasMore THEN Prefix(fetched, limit) ELSE fetched
    IN  IF user = Nil THEN Outcome(Unauthorized, S, nid)
        ELSE IF dbError
        THEN Outcome(ErrorResponse(500, "Failed to retrieve sessions"), S, nid)
        ELSE Outcome([status |-> 200,
                      body |-> [sessions |-> page,
                                next_id |-> IF hasMore /\ Len(page) > 0
                                            THEN page[Len(page)].id ELSE 0,
                                has_more |-> hasMore]],
                     S, nid)

\* handlers.GetSessions on the table S; next_id 0 stands for an absent one.
GetSessionsOutcome(S, nid, ctx, limitStr, lastIDStr, dbError) ==
    LET user == GetCurrentUser(ctx)
        parsed == Atoi(IF limitStr = <<>> THEN <<"2", "0">> ELSE limitStr)
        limit == IF ~parsed.ok \/ parsed.val < 1 \/ parsed.val > 100
                 THEN 20 ELSE parsed.val
        cursor == ParseUint(lastIDStr)
        lastID == IF lastIDStr # <<>> /\ cursor.ok THEN cursor.val ELSE 0
        found == OrderIDDesc({s \in LiveSessions(S, user) :
                                 lastID > 0 => s.id < lastID})
        fetched == Prefix(found, limit + 1)
        hasMore == Len(fetched) > limit
        page == IF hasMore THEN Prefix(fetched, limit) ELSE fetched
    IN  IF user = Nil THEN Outcome(Unauthorized, S, nid)
        ELSE IF dbError
        THEN Outcome(ErrorResponse(500, "Failed to retrieve sessions"), S, nid)
        ELSE Outcome([status |-> 200,
                      body |-> [sessions |-> page,
                                next_id |-> IF hasMore /\ Len(page) > 0
                                            THEN page[Len(page)].id ELSE 0,
                                has_more |-> hasMore]],
                     S, nid)

\* handlers.GetUserProfile: the user of the context, no store call.
GetUserProfileOutcome(S, nid, ctx) ==
    LET user == GetCurrentUser(ctx)
    IN  IF user = Nil THEN Outcome(Unauthorized, S, nid)
        ELSE Outcome([status |-> 200, body |-> [id |-> user]], S, nid)

\* A handler runs in one piece while no other request is being handled.
Handle(req, out) ==
    /\ pc = "idle"
    /\ pc' = "done"
    /\ request' = req
    /\ response' = out.response
    /\ sessions' = out.sessions
    /\ nextID' = out.nextID
    /\ startNow' = now
    /\ startSessions' = sessions
    /\ startUsers' = users
    /\ seen' = {sessions, out.sessions}
    /\ UNCHANGED <<users, context, now,
                   call, args, sessionDates, today, streaks, weekly,
                   yearly, year, recent, result, prev>>

\* A handler runs in one piece on behalf of another client, whose response
\* the model does not keep.
Meanwhile(out) ==
    /\ sessions' = out.sessions
    /\ nextID' = out.nextID
    /\ seen' = IF pc = "idle" THEN seen ELSE seen \cup {out.sessions}
    /\ UNCHANGED <<users, startUsers, context, now, callVars, prev>>

CreateSessionRequest(ctx, body) ==
    [handler |-> "CreateSession", user |-> ctx, body |-> body]

CreateSession(ctx, body, dbError) ==
    /\ nextID <= MaxSessions
    /\ Handle(CreateSessionRequest(ctx, body),
              CreateSessionOutcome(sessions, nextID, now, ctx, body, dbError))

DeleteSessionRequest(ctx, idStr) ==
    [handler |-> "DeleteSession", user |-> ctx, id |-> idStr]

DeleteSession(ctx, idStr, dbError) ==
    Handle(DeleteSessionRequest(ctx, idStr),
           DeleteSessionOutcome(sessions, nextID, ctx, idStr, dbError))

GetSessionsRequest(ctx, limitStr, lastIDStr) ==
    [handler |-> "GetSessions", user |-> ctx, limit |-> limitStr,
     last_id |-> lastIDStr]

GetSessions(ctx, limitStr, lastIDStr, dbError) ==
    Handle(GetSessionsRequest(ctx, limitStr, lastIDStr),
           GetSessionsOutcome(sessions, nextID, ctx, limitStr, lastIDStr,
                              dbError))

GetUserProfileRequest(ctx) == [handler |-> "GetUserProfile", user |-> ctx]

GetUserProfile(ctx) ==
    Handle(GetUserProfileRequest(ctx),
           GetUserProfileOutcome(sessions, nextID, ctx))

GetDashboardRequest(ctx, yearStr, limitStr) ==
    [handler |-> "GetDashboard", user |-> ctx, year |-> yearStr,
     sessions |-> limitStr]

\* handlers.GetDashboard up to its call of services.GetDashboardData.
GetDashboard(ctx, yearStr, limitStr) ==
    LET req == GetDashboardRequest(ctx, yearStr, limitStr)
        user == GetCurrentUser(ctx)
    IN  IF user = Nil
        THEN Handle(req, Outcome(Unauthorized, sessions, nextID))
        ELSE Start("GetDashboardData", req,
                   [year |-> parseYear(yearStr),
                    limit |-> parseSessionLimit(limitStr),
                    user |-> user])

----------------------------------------------------------------------------
(* package auth: the middleware of the protected routes.  A row of the     *)
(* users table is [id, clerk_user_id, email, first_name, last_name,        *)
(* deleted]; the unique index on clerk_user_id covers soft-deleted rows.   *)

\* strings.Split(str, sep), sep being one character.
RECURSIVE Split(_, _)
Split(str, sep) ==
    IF \A i \in 1..Len(str) : str[i] # sep THEN <<str>>
    ELSE LET i == CHOOSE k \in 1..Len(str) :
                      str[k] = sep /\ \A j \in 1..(k - 1) : str[j] # sep
         IN  <<SubSeq(str, 1, i - 1)>>
                 \o Split(SubSeq(str, i + 1, Len(str)), sep)

Bearer == <<"B", "e", "a", "r", "e", "r">>

\* The lookup by clerk id on a table without soft delete.
UsersWithDeleted(U, clerkUserID) == {u \in U : u.clerk_user_id = clerkUserID}

\* The rows that Where("clerk_user_id = ?", id) selects: gorm leaves the
\* soft-deleted ones out.
LiveUsers(U, clerkUserID) ==
    {u \in U : u.clerk_user_id = clerkUserID /\ ~u.deleted}

\* What Clerk's verification endpoint does with a request: the transport
\* fails, or it answers with a status and a body that decodes to `sub` or
\* does not decode.
ClerkFails == [failed |-> TRUE, status |-> 0, decodable |-> FALSE, sub |-> ""]
ClerkAnswer(code, ok, sub) ==
    [failed |-> FALSE, status |-> code, decodable |-> ok, sub |-> sub]

\* VerifyClerkToken: the clerk user id, or an error.
VerifyClerkToken(token, secretKey, clerk) ==
    IF secretKey = "" THEN [ok |-> FALSE, val |-> ""]
    ELSE IF clerk.failed THEN [ok |-> FALSE, val |-> ""]
    ELSE IF clerk.status # 200 THEN [ok |-> FALSE, val |-> ""]
    ELSE IF ~clerk.decodable THEN [ok |-> FALSE, val |-> ""]
    ELSE [ok |-> TRUE, val |-> clerk.sub]

\* What the middleware leaves: the response it wrote (NoResponse when it
\* wrote none), the value of "user" in the context, whether it aborted.
Abort(msg) ==
    [response |-> ErrorResponse(401, msg), user |-> NoUser, aborted |-> TRUE]

\* AuthMiddleware: dbError tells whether the store lookup fails.
AuthMiddlewareOutcome(U, secretKey, authHeader, clerk, dbError) ==
    LET parts == Split(authHeader, " ")
        verified == VerifyClerkToken(parts[2], secretKey, clerk)
        found == IF dbError THEN {} ELSE LiveUsers(U, verified.val)
    IN  IF authHeader = <<>> THEN Abort("Missing authorization header")
        ELSE IF Len(parts) # 2 \/ parts[1] # Bearer
        THEN Abort("Invalid authorization header format")
        ELSE IF ~verified.ok THEN Abort("Invalid token")
        ELSE IF found = {} THEN Abort("User not found")
        ELSE [response |-> NoResponse,
              user |-> ContextUser((CHOOSE u \in found : TRUE).id),
              aborted |-> FALSE]

ProtectedRequest(authHeader, secretKey, clerk) ==
    [handler |-> "GetUserProfile", authorization |-> authHeader,
     secret |-> secretKey, clerk |-> clerk]

\* GET /api/user/profile: gin runs the middleware and then, unless the
\* middleware aborted, handlers.GetUserProfile.
ProtectedGetUserProfile(authHeader, secretKey, clerk, dbError) ==
    LET mw == AuthMiddlewareOutcome(users, secretKey, authHeader, clerk,
                                    dbError)
        out == GetUserProfileOutcome(sessions, nextID, mw.user)
    IN  /\ pc = "idle"
        /\ pc' = "done"
        /\ request' = ProtectedRequest(authHeader, secretKey, clerk)
        /\ response' = IF mw.aborted THEN mw.response ELSE out.response
        /\ context' = [user |-> mw.user, aborted |-> mw.aborted,
                       handled |-> ~mw.aborted]
        /\ startNow' = now
        /\ startSessions' = sessions
        /\ startUsers' = users
        /\ seen' = {sessions}
        /\ UNCHANGED <<users, sessions, nextID, now, call, args, sessionDates,
                       today, streaks, weekly, yearly, year, recent, result,
                       prev>>

----------------------------------------------------------------------------
(* package auth: the Clerk webhook.  The hex digest of HMAC-SHA256 is one  *)
(* element of a text, standing for its 64 characters: it spells the key    *)
(* and the message, so two digests are equal exactly when both are.  A     *)
(* payload is its bytes together with what json.Unmarshal makes of them.   *)

HmacSHA256Hex(secret, message) == <<ToString(<<secret, message>>)>>

HasPrefix(str, prefix) ==
    Len(str) >= Len(prefix) /\ SubSeq(str, 1, Len(prefix)) = prefix

TrimPrefix(str, prefix) ==
    IF HasPrefix(str, prefix) THEN SubSeq(str, Len(prefix) + 1, Len(str))
    ELSE str

V1 == <<"v", "1", ",">>

\* verifySignature comparing with the first entry of the header only.
verifySignatureFirstEntry(payload, signature, timestamp, secret) ==
    LET signedPayload == timestamp \o <<".">> \o payload
        expectedSignature == HmacSHA256Hex(secret, signedPayload)
        sig == Split(signature, " ")[1]
    IN  HasPrefix(sig, V1) /\ TrimPrefix(sig, V1) = expectedSignature

\* verifySignature.
verifySignature(payload, signature, timestamp, secret) ==
    LET signedPayload == timestamp \o <<".">> \o payload
        expectedSignature == HmacSHA256Hex(secret, signedPayload)
        signatures == Split(signature, " ")
    IN  \E i \in 1..Len(signatures) :
            /\ HasPrefix(signatures[i], V1)
            /\ TrimPrefix(signatures[i], V1) = expectedSignature

Undecodable == [undecodable |-> TRUE]

\* The email of a ClerkUser: the first address marked primary, and the
\* first address when that gave the empty string.
PrimaryEmail(clerkUser) ==
    LET addrs == clerkUser.email_addresses
        primaries == {i \in 1..Len(addrs) : addrs[i].primary}
        email == IF primaries = {} THEN ""
                 ELSE addrs[CHOOSE i \in primaries :
                                \A k \in primaries : i <= k].email_address
    IN  IF email = "" /\ Len(addrs) > 0 THEN addrs[1].email_address
        ELSE email

\* What the webhook leaves: the response and the users table.
Webhook(resp, U) == [response |-> resp, users |-> U]

Message(msg) == [status |-> 200, body |-> [message |-> msg]]

\* handleUserCreated on a table without the unique index on clerk_user_id.
handleUserCreatedNoIndex(U, id, clerkUser, dbError) ==
    LET user == [id |-> id, clerk_user_id |-> clerkUser.id,
                 email |-> PrimaryEmail(clerkUser),
                 first_name |-> clerkUser.first_name,
                 last_name |-> clerkUser.last_name, deleted |-> FALSE]
    IN  IF dbError
        THEN Webhook(ErrorResponse(500, "Failed to create user"), U)
        ELSE Webhook([status |-> 200,
                      body |-> [message |-> "User created successfully",
                                user_id |-> id]],
                     U \cup {user})

\* handleUserCreated: id is the fresh ULID; database.DB.Create fails when
\* dbError says so or when a row, deleted or not, has the clerk id.
handleUserCreated(U, id, clerkUser, dbError) ==
    LET user == [id |-> id, clerk_user_id |-> clerkUser.id,
                 email |-> PrimaryEmail(clerkUser),
                 first_name |-> clerkUser.first_name,
                 last_name |-> clerkUser.last_name, deleted |-> FALSE]
    IN  IF dbError \/ \E u \in U : u.clerk_user_id = clerkUser.id
        THEN Webhook(ErrorResponse(500, "Failed to create user"), U)
        ELSE Webhook([status |-> 200,
                      body |-> [message |-> "User created successfully",
                                user_id |-> id]],
                     U \cup {user})

\* handleUserUpdated writing the clerk id of the event into the row too.
handleUserUpdatedWhole(U, clerkUser, dbError) ==
    LET found == LiveUsers(U, clerkUser.id)
        user == CHOOSE u \in found : TRUE
        saved == [user EXCEPT !.email = PrimaryEmail(clerkUser),
                              !.first_name = clerkUser.first_name,
                              !.last_name = clerkUser.last_name,
                              !.id = clerkUser.id]
    IN  IF found = {}
        THEN Webhook(ErrorResponse(404, "User not found"), U)
        ELSE IF dbError
        THEN Webhook(ErrorResponse(500, "Failed to update user"), U)
        ELSE Webhook([status |-> 200,
                      body |-> [message |-> "User updated successfully",
                                user_id |-> saved.id]],
                     (U \ {user}) \cup {saved})

\* handleUserUpdated.
handleUserUpdated(U, clerkUser, dbError) ==
    LET found == LiveUsers(U, clerkUser.id)
        user == CHOOSE u \in found : TRUE
        saved == [user EXCEPT !.email = PrimaryEmail(clerkUser),
                              !.first_name = clerkUser.first_name,
                              !.last_name = clerkUser.last_name]
    IN  IF found = {}
        THEN Webhook(ErrorResponse(404, "User not found"), U)
        ELSE IF dbError
        THEN Webhook(ErrorResponse(500, "Failed to update user"), U)
        ELSE Webhook([status |-> 200,
                      body |-> [message |-> "User updated successfully",
                                user_id |-> user.id]],
                     (U \ {user}) \cup {saved})

\* handleUserDeleted.
handleUserDeleted(U, clerkUser, dbError) ==
    LET found == LiveUsers(U, clerkUser.id)
    IN  IF dbError
        THEN Webhook(ErrorResponse(500, "Failed to delete user"), U)
        ELSE Webhook(Message("User deleted successfully"),
                     (U \ found)
                         \cup {[u EXCEPT !.deleted = TRUE] : u \in found})

\* VerifyClerkWebhook checking the signature after it has handled the event.
VerifyClerkWebhookOutcomeLateCheck(U, id, secretKey, signature, timestamp, payload, readError, dbError) ==
    LET event == payload.json
        handled ==
            IF "undecodable" \in DOMAIN event THEN Webhook(NoResponse, U)
            ELSE IF event.type = "user.created"
            THEN handleUserCreated(U, id, event.data, dbError)
            ELSE IF event.type = "user.updated"
            THEN handleUserUpdated(U, event.data, dbError)
            ELSE IF event.type = "user.deleted"
            THEN handleUserDeleted(U, event.data, dbError)
            ELSE Webhook(Message("Event type not handled"), U)
    IN  IF secretKey = ""
        THEN Webhook(ErrorResponse(500, "Clerk secret key not configured"), U)
        ELSE IF signature = <<>>
        THEN Webhook(ErrorResponse(400, "Missing signature header"), U)
        ELSE IF timestamp = <<>>
        THEN Webhook(ErrorResponse(400, "Missing timestamp header"), U)
        ELSE IF readError
        THEN Webhook(ErrorResponse(400, "Failed to read request body"), U)
        ELSE IF "undecodable" \in DOMAIN event
        THEN Webhook(ErrorResponse(400, "Invalid JSON payload"), U)
        ELSE IF ~verifySignature(payload.bytes, signature, timestamp, secretKey)
        THEN Webhook(ErrorResponse(401, "Invalid signature"), handled.users)
        ELSE handled

\* VerifyClerkWebhook: readError tells whether reading the body fails,
\* dbError whether the store call of the event's handler does.
VerifyClerkWebhookOutcome(U, id, secretKey, signature, timestamp, payload, readError, dbError) ==
    LET event == payload.json
    IN  IF secretKey = ""
        THEN Webhook(ErrorResponse(500, "Clerk secret key not configured"), U)
        ELSE IF signature = <<>>
        THEN Webhook(ErrorResponse(400, "Missing signature header"), U)
        ELSE IF timestamp = <<>>
        THEN Webhook(ErrorResponse(400, "Missing timestamp header"), U)
        ELSE IF readError
        THEN Webhook(ErrorResponse(400, "Failed to read request body"), U)
        ELSE IF ~verifySignature(payload.bytes, signature, timestamp, secretKey)
        THEN Webhook(ErrorResponse(401, "Invalid signature"), U)
        ELSE IF "undecodable" \in DOMAIN event
        THEN Webhook(ErrorResponse(400, "Invalid JSON payload"), U)
        ELSE IF event.type = "user.created"
        THEN handleUserCreated(U, id, event.data, dbError)
        ELSE IF event.type = "user.updated"
        THEN handleUserUpdated(U, event.data, dbError)
        ELSE IF event.type = "user.deleted"
        THEN handleUserDeleted(U, event.data, dbError)
        ELSE Webhook(Message("Event type not handled"), U)

WebhookRequest(secretKey, signature, timestamp, payload, readError) ==
    [handler |-> "VerifyClerkWebhook", secret |-> secretKey,
     signature |-> signature, timestamp |-> timestamp, payload |-> payload,
     unreadable |-> readError]

\* POST /api/webhooks/clerk; id is the ULID that ulid.Make would give.  The
\* model stops adding users at MaxUsers rows.
VerifyClerkWebhook(id, secretKey, signature, timestamp, payload, readError, dbError) ==
    LET out == VerifyClerkWebhookOutcome(users, id, secretKey, signature,
                                         timestamp, payload, readError,
                                         dbError)
    IN  /\ pc = "idle"
        /\ Cardinality(out.users) <= MaxUsers
        /\ pc' = "done"
        /\ request' = WebhookRequest(secretKey, signature, timestamp, payload,
                                     readError)
        /\ response' = out.response
        /\ users' = out.users
        /\ startNow' = now
        /\ startSessions' = sessions
        /\ startUsers' = users
        /\ seen' = {sessions}
        /\ UNCHANGED <<context, sessions, nextID, now, call, args,
                       sessionDates, today, streaks, weekly, yearly, year,
                       recent, result, prev>>


----------------------------------------------------------------------------
(* SpecStreaks: CalculateStreaks for u1, called late on 2025-07-03, with   *)
(* midnight about to pass.  The table                                      *)
(* holds sessions of u1 on any set of the days from RecentWindow days ago  *)
(* to tomorrow, and on one run of days (or none) among the days from       *)
(* StreakWindow days ago up to there.                                      *)

Noon == 12 * TicksPerHour
StreakToday0 == DayNumber(2025, 7, 3)
RecentDays == (StreakToday0 - RecentWindow)..(StreakToday0 + 1)
OlderDays == (StreakToday0 - StreakWindow)..(StreakToday0 - RecentWindow - 1)
OlderRuns == {a..b : a \in OlderDays, b \in OlderDays} \cup {{}}

\* One live session of u1 at noon of each day of D.
StreakRows(D) ==
    {[id |-> d - StreakToday0 + StreakWindow + 1, user_id |-> "u1",
      created_at |-> d * TicksPerDay + Noon, duration_seconds |-> 600,
      deleted |-> FALSE,
      session_type |-> "mindfulness", notes |-> ""] : d \in D}

\* Rows that must not count: a soft-deleted session of u1 today, a session
\* of another user yesterday; and a second session of u1 on one day.
StreakExtraRows ==
    {[id |-> 101, user_id |-> "u1",
      created_at |-> StreakToday0 * TicksPerDay + 8 * TicksPerHour,
      duration_seconds |-> 300, deleted |-> TRUE,
      session_type |-> "mindfulness", notes |-> ""],
     [id |-> 102, user_id |-> "u2",
      created_at |-> (StreakToday0 - 1) * TicksPerDay + Noon,
      duration_seconds |-> 300, deleted |-> FALSE,
      session_type |-> "mindfulness", notes |-> ""],
     [id |-> 103, user_id |-> "u1",
      created_at |-> (StreakToday0 - 3) * TicksPerDay + 20 * TicksPerHour,
      duration_seconds |-> 300, deleted |-> FALSE,
      session_type |-> "mindfulness", notes |-> ""]}

StreakExtras == {{}, StreakExtraRows} \cup {{r} : r \in StreakExtraRows}

StreakInit ==
    /\ \E R \in SUBSET RecentDays, O \in OlderRuns, X \in StreakExtras :
          sessions = StreakRows(R \cup O) \cup X
    /\ nextID = 104
    /\ now = Instant(2025, 7, 3, 23, 59, 59, 1)
    /\ IdleCall
    /\ prev = NoPrev
    /\ users = {}

StreakBegin ==
    Begin("CalculateStreaks", [year |-> 0, limit |-> 0, user |-> "u1"])

\* Midnight passes.
StreakTick == Tick((StreakToday0 + 1) * TicksPerDay)

StreakNext ==
    \/ StreakBegin
    \/ QueryFails
    \/ StreakDates
    \/ StreakToday
    \/ StreakYesterday
    \/ Return
    \/ StreakTick

SpecStreaks == StreakInit /\ [][StreakNext]_vars

----------------------------------------------------------------------------
(* Spec: GetDashboardData, called late on 2025-07-03, with midnight about  *)
(* to pass, over a table that holds any of the rows of SeedRows.  The      *)
(* table does not change while this specification runs.                    *)

SeedRows ==
    {[id |-> 1, user_id |-> "u1", created_at |-> Instant(2025, 7, 1, 0, 0, 0, 0),
      duration_seconds |-> 600, deleted |-> FALSE,
      session_type |-> "mindfulness", notes |-> ""],
     [id |-> 2, user_id |-> "u1", created_at |-> Instant(2025, 7, 2, 12, 0, 0, 0),
      duration_seconds |-> 900, deleted |-> FALSE,
      session_type |-> "mindfulness", notes |-> ""],
     [id |-> 3, user_id |-> "u1", created_at |-> Instant(2025, 7, 3, 12, 0, 0, 0),
      duration_seconds |-> 300, deleted |-> FALSE,
      session_type |-> "mindfulness", notes |-> ""],
     [id |-> 4, user_id |-> "u1", created_at |-> Instant(2025, 6, 30, 23, 59, 59, 0),
      duration_seconds |-> 90, deleted |-> FALSE,
      session_type |-> "mindfulness", notes |-> ""],
     [id |-> 5, user_id |-> "u1", created_at |-> Instant(2025, 6, 30, 23, 59, 59, 1),
      duration_seconds |-> 150, deleted |-> FALSE,
      session_type |-> "mindfulness", notes |-> ""],
     [id |-> 6, user_id |-> "u2", created_at |-> Instant(2025, 7, 3, 12, 0, 0, 0),
      duration_seconds |-> 600, deleted |-> FALSE,
      session_type |-> "mindfulness", notes |-> ""],
     [id |-> 7, user_id |-> "u1", created_at |-> Instant(2025, 6, 29, 8, 0, 0, 0),
      duration_seconds |-> 240, deleted |-> TRUE,
      session_type |-> "mindfulness", notes |-> ""]}

DashYears == {0, 2025}
DashLimits == {0, 2}

Init ==
    /\ sessions \in SUBSET SeedRows
    /\ nextID = 8
    /\ now = Instant(2025, 7, 3, 23, 59, 59, 1)
    /\ IdleCall
    /\ prev = NoPrev
    /\ users = {}

DashBegin ==
    \E u \in Users, y \in DashYears, l \in DashLimits :
        Begin("GetDashboardData", [year |-> y, limit |-> l, user |-> u])

\* Midnight passes.
DashTick == Tick(Instant(2025, 7, 4, 0, 0, 0, 0))

Next ==
    \/ DashBegin
    \/ QueryFails
    \/ StreakDates
    \/ StreakToday
    \/ StreakYesterday
    \/ WeeklyStep
    \/ YearDefault
    \/ YearlyStep
    \/ RecentStep
    \/ Return
    \/ DashTick

Spec == Init /\ [][Next]_vars

----------------------------------------------------------------------------
(* SpecHandlers: the handlers, one request at a time, late on 2025-12-31   *)
(* with the new year about to begin.  The table holds the first 0, 3 or 7  *)
(* of seven sessions: six of u1, the last of them stored at the very       *)
(* instant the clock shows, and one of u2.  GetRecentSessions is also      *)
(* called directly, with limits the handler would never pass.  Sessions    *)
(* are created by u2 here; u1 creates sessions under SpecPaging and        *)
(* SpecConcurrent.                                                         *)

HandlerSeedRows ==
    {[id |-> i, user_id |-> "u1",
      created_at |-> Instant(2025, 12, 25 + i, 12, 0, 0, 0),
      duration_seconds |-> 600, deleted |-> FALSE,
      session_type |-> "mindfulness", notes |-> ""] : i \in 1..5}
    \cup
    {[id |-> 6, user_id |-> "u1",
      created_at |-> Instant(2025, 12, 31, 23, 59, 59, 1),
      duration_seconds |-> 900, deleted |-> FALSE,
      session_type |-> "breathing", notes |-> "evening"],
     [id |-> 7, user_id |-> "u2",
      created_at |-> Instant(2025, 12, 31, 12, 0, 0, 0),
      duration_seconds |-> 300, deleted |-> FALSE,
      session_type |-> "walking", notes |-> ""]}

HandlerSeedCounts == {0, 3, 7}

HandlerInit ==
    /\ \E k \in HandlerSeedCounts :
          sessions = {s \in HandlerSeedRows : s.id <= k}
    /\ nextID = 8
    /\ now = Instant(2025, 12, 31, 23, 59, 59, 1)
    /\ IdleCall
    /\ prev = NoPrev
    /\ users = {}

Contexts == {NoUser, NotAUser} \cup {ContextUser(u) : u \in Users}

\* Values of the `year` and of the `sessions` query parameter; <<>> is a
\* missing one.
YearTexts ==
    {<<>>, <<"a", "b", "c">>, <<"1", "8", "9", "9">>, <<"3", "0", "0", "1">>,
     <<"2", "0", "2", "5">>}
LimitTexts ==
    {<<>>, <<"a", "b", "c">>, <<"0">>, <<"1", "0", "1">>, <<"2">>}

\* Dashboard requests: each parameter is varied for u1 with the other one
\* missing.
DashboardRequests ==
    {<<ContextUser("u1"), y, <<>> >> : y \in YearTexts}
    \cup {<<ContextUser("u1"), <<>>, l>> : l \in LimitTexts}
    \cup {<<c, <<>>, <<>> >> : c \in Contexts}

HandlerGetDashboard ==
    \E r \in DashboardRequests : GetDashboard(r[1], r[2], r[3])

RecentLimits == {0, 0 - 5, 500, 5, 10, 2}

RecentBegin ==
    \E u \in Users, l \in RecentLimits :
        StartAt("GetRecentSessions", NoRequest,
                [year |-> 0, limit |-> l, user |-> u], "recent")

CreateBodies ==
    {[duration_seconds |-> 1, session_type |-> "body_scan", notes |-> "calm"],
     [session_type |-> "mindfulness"],
     [duration_seconds |-> 0, session_type |-> "mindfulness"],
     [duration_seconds |-> 0 - 60, session_type |-> "mindfulness"],
     [duration_seconds |-> 60, session_type |-> "yoga"],
     [duration_seconds |-> 60],
     SyntaxError}

\* The callers of CreateSession: a request without a user, with a value
\* that is no user, and u2.
CreateContexts == {NoUser, NotAUser, ContextUser("u2")}

HandlerCreateSession ==
    \E c \in CreateContexts, b \in CreateBodies, e \in BOOLEAN :
        CreateSession(c, b, e)

IDTexts == {<<"2">>, <<"6">>, <<"7">>, <<"8">>, <<"x">>, <<"-", "1">>}

HandlerDeleteSession ==
    \E c \in Contexts, i \in IDTexts, e \in {"", "First", "Delete"} :
        DeleteSession(c, i, e)

PageTexts == {<<>>, <<"2">>, <<"0">>, <<"1", "0", "1">>, <<"x">>}
CursorTexts == {<<>>, <<"3">>, <<"0">>, <<"x">>}

HandlerGetSessions ==
    \E c \in Contexts, l \in PageTexts, i \in CursorTexts, e \in BOOLEAN :
        GetSessions(c, l, i, e)

HandlerGetUserProfile == \E c \in Contexts : GetUserProfile(c)

\* The new year begins.
HandlerTick == Tick(Instant(2026, 1, 1, 0, 0, 0, 0))

HandlerNext ==
    \/ HandlerGetDashboard
    \/ RecentBegin
    \/ QueryFails
    \/ StreakDates
    \/ StreakToday
    \/ StreakYesterday
    \/ WeeklyStep
    \/ YearDefault
    \/ YearlyStep
    \/ RecentStep
    \/ HandlerCreateSession
    \/ HandlerDeleteSession
    \/ HandlerGetSessions
    \/ HandlerGetUserProfile
    \/ Return
    \/ HandlerTick

SpecHandlers == HandlerInit /\ [][HandlerNext]_vars

----------------------------------------------------------------------------
(* SpecConcurrent: GetDashboardData for u1 at noon of 2025-07-03 while     *)
(* other requests of u1 create and delete sessions between its queries.    *)
(* The table holds any of two sessions of u1, the later one stored at the  *)
(* very instant the clock shows.  One earlier call is remembered, so that  *)
(* two calls can be compared.                                              *)

ConcurrentSeedRows ==
    {[id |-> 6, user_id |-> "u1", created_at |-> Instant(2025, 7, 2, 12, 0, 0, 0),
      duration_seconds |-> 600, deleted |-> FALSE,
      session_type |-> "mindfulness", notes |-> ""],
     [id |-> 7, user_id |-> "u1", created_at |-> Instant(2025, 7, 3, 12, 0, 0, 0),
      duration_seconds |-> 300, deleted |-> FALSE,
      session_type |-> "mindfulness", notes |-> ""]}

ConcurrentInit ==
    /\ sessions \in SUBSET ConcurrentSeedRows
    /\ nextID = 8
    /\ now = Instant(2025, 7, 3, 12, 0, 0, 0)
    /\ IdleCall
    /\ prev = NoPrev
    /\ users = {}

ConcurrentLimits == {0, 1}

ConcurrentBegin ==
    \E l \in ConcurrentLimits :
        Begin("GetDashboardData", [year |-> 0, limit |-> l, user |-> "u1"])

MeanwhileCreateSession ==
    /\ nextID <= MaxSessions
    /\ Meanwhile(CreateSessionOutcome(
           sessions, nextID, now, ContextUser("u1"),
           [duration_seconds |-> 120, session_type |-> "breathing"], FALSE))

MeanwhileDeleteSession ==
    \E i \in {<<"7">>, <<"8">>} :
        /\ \E s \in LiveSessions(sessions, "u1") : s.id = ParseUint(i).val
        /\ Meanwhile(DeleteSessionOutcome(sessions, nextID, ContextUser("u1"),
                                          i, ""))

\* The caller has taken the result of a call during which the table did not
\* change, and the call is remembered.
ReturnRemembered ==
    /\ prev = NoPrev
    /\ call = "GetDashboardData"
    /\ result.status = "ok"
    /\ seen = {sessions}
    /\ TakeResult
    /\ prev' = [args |-> args, tables |-> seen, date |-> FormatDate(now),
                data |-> result.data]

\* Time passes within the day.
ConcurrentTick == Tick(Instant(2025, 7, 3, 12, 0, 0, 1))

ConcurrentNext ==
    \/ ConcurrentBegin
    \/ QueryFails
    \/ StreakDates
    \/ StreakToday
    \/ StreakYesterday
    \/ WeeklyStep
    \/ YearDefault
    \/ YearlyStep
    \/ RecentStep
    \/ Return
    \/ ReturnRemembered
    \/ MeanwhileCreateSession
    \/ MeanwhileDeleteSession
    \/ ConcurrentTick

SpecConcurrent == ConcurrentInit /\ [][ConcurrentNext]_vars

----------------------------------------------------------------------------
(* SpecAuth: requests to the protected route and to the Clerk webhook, one *)
(* at a time, and verifySignature called directly.  The users table holds  *)
(* nobody, or u1, or u1 and the soft-deleted u2; the webhook adds users    *)
(* up to MaxUsers rows.                                                    *)

AuthSeedRows ==
    <<[id |-> "u1", clerk_user_id |-> "c1", email |-> "one@example.com",
       first_name |-> "Ann", last_name |-> "One", deleted |-> FALSE],
      [id |-> "u2", clerk_user_id |-> "c2", email |-> "two@example.com",
       first_name |-> "Bob", last_name |-> "Two", deleted |-> TRUE]>>

AuthInit ==
    /\ \E k \in 0..2 : users = {AuthSeedRows[i] : i \in 1..k}
    /\ sessions = {}
    /\ nextID = 1
    /\ now = Instant(2025, 7, 3, 12, 0, 0, 0)
    /\ IdleCall
    /\ prev = NoPrev

\* The ULIDs that ulid.Make gives, in the order it gives them.
ULIDs == <<"u1", "u2", "u3", "u4", "u5", "u6">>

\* Values of the Authorization header.
AuthHeaders ==
    {<<>>,
     Bearer \o <<" ", "t">>,
     Bearer,
     Bearer \o <<" ">>,
     Bearer \o <<" ", "t", " ", "x">>,
     Bearer \o <<" ", " ", "t">>,
     <<"b", "e", "a", "r", "e", "r", " ", "t">>,
     <<"B", "a", "s", "i", "c", " ", "t">>}

ClerkAnswers ==
    {ClerkFails, ClerkAnswer(401, TRUE, ""), ClerkAnswer(200, FALSE, ""),
     ClerkAnswer(200, TRUE, "")}
    \cup {ClerkAnswer(200, TRUE, c) : c \in {"c1", "c2", "c3"}}

ClerkSecrets == {"", "sk_test"}

AuthProtected ==
    \E h \in AuthHeaders, k \in ClerkSecrets, a \in ClerkAnswers,
       e \in BOOLEAN :
        ProtectedGetUserProfile(h, k, a, e)

\* Events: their bytes, and what json.Unmarshal makes of them.
ClerkUser(id, addrs, first, last) ==
    [id |-> id, email_addresses |-> addrs, first_name |-> first,
     last_name |-> last]
Address(email, primary) == [email_address |-> email, primary |-> primary]
Event(bytes, type, data) ==
    [bytes |-> bytes, json |-> [type |-> type, data |-> data]]

Payloads ==
    {Event(<<"a">>, "user.created",
           ClerkUser("c3", <<Address("old@example.com", FALSE),
                             Address("new@example.com", TRUE)>>,
                     "Cy", "Three")),
     Event(<<"b">>, "user.created",
           ClerkUser("c1", <<Address("first@example.com", FALSE),
                             Address("second@example.com", FALSE)>>,
                     "Ann", "Again")),
     Event(<<"c">>, "user.created", ClerkUser("c2", <<>>, "", "")),
     Event(<<"d">>, "user.created",
           ClerkUser("c4", <<Address("other@example.com", FALSE),
                             Address("", TRUE)>>, "Di", "Four")),
     Event(<<"e">>, "user.updated",
           ClerkUser("c1", <<Address("ann@example.com", TRUE)>>,
                     "Anna", "Uno")),
     Event(<<"f">>, "user.updated",
           ClerkUser("c2", <<Address("bob@example.com", TRUE)>>,
                     "Bobby", "Due")),
     Event(<<"g">>, "user.deleted", ClerkUser("c1", <<>>, "", "")),
     Event(<<"h">>, "user.deleted", ClerkUser("c9", <<>>, "", "")),
     Event(<<"i">>, "session.created", ClerkUser("c1", <<>>, "", "")),
     [bytes |-> <<"{">>, json |-> Undecodable]}

WebhookSecrets == {"", "whsec"}
Timestamps == {<<>>, <<"1">>, <<"2">>}

\* Values of the svix-signature header for a payload: none, the signature
\* of the payload at timestamp 1 under the webhook secret, and signatures
\* that differ from it in the key, the timestamp, the payload, the prefix
\* or the position in the header.
Signed(bytes, ts, key) == HmacSHA256Hex(key, ts \o <<".">> \o bytes)

SignatureHeaders(bytes) ==
    {<<>>,
     V1 \o Signed(bytes, <<"1">>, "whsec"),
     V1 \o Signed(bytes, <<"1">>, "guess"),
     V1 \o Signed(<<"z">>, <<"1">>, "whsec"),
     Signed(bytes, <<"1">>, "whsec"),
     <<"v", "2", ",">> \o Signed(bytes, <<"1">>, "whsec"),
     V1 \o Signed(bytes, <<"1">>, "guess") \o <<" ">>
         \o V1 \o Signed(bytes, <<"1">>, "whsec"),
     V1 \o <<" ">> \o Signed(bytes, <<"1">>, "whsec")}

\* Which of reading the body and the store call fails: neither, or one.
Failures == {<<FALSE, FALSE>>, <<TRUE, FALSE>>, <<FALSE, TRUE>>}

\* Webhook requests: a payload with no signature header, with its
\* signature, with a signature under another key, or with both.
DeliveryHeaders(bytes) ==
    {<<>>,
     V1 \o Signed(bytes, <<"1">>, "whsec"),
     V1 \o Signed(bytes, <<"1">>, "guess"),
     V1 \o Signed(bytes, <<"1">>, "guess") \o <<" ">>
         \o V1 \o Signed(bytes, <<"1">>, "whsec")}

Deliveries ==
    UNION {{<<p, sig>> : sig \in DeliveryHeaders(p.bytes)} : p \in Payloads}

AuthWebhook ==
    \E d \in Deliveries, k \in WebhookSecrets, t \in Timestamps,
       f \in Failures :
        VerifyClerkWebhook(ULIDs[Cardinality(users) + 1], k, d[2], t, d[1],
                           f[1], f[2])

\* verifySignature called directly.
AuthVerifySignature ==
    \E p \in {<<"a">>, <<"b">>}, k \in WebhookSecrets, t \in Timestamps :
        \E sig \in SignatureHeaders(p) \cup SignatureHeaders(<<"a">>) :
            /\ pc = "idle"
            /\ pc' = "done"
            /\ call' = "verifySignature"
            /\ request' = [handler |-> "none", payload |-> p,
                           signature |-> sig, timestamp |-> t, secret |-> k]
            /\ result' = [status |-> "ok", err |-> "",
                          data |-> verifySignature(p, sig, t, k)]
            /\ UNCHANGED <<users, startUsers, context, sessions, nextID, now,
                           args, startNow, startSessions, sessionDates, today,
                           streaks, weekly, yearly, year, recent, response,
                           seen, prev>>

AuthNext ==
    \/ AuthProtected
    \/ AuthWebhook
    \/ AuthVerifySignature
    \/ Return

SpecAuth == AuthInit /\ [][AuthNext]_vars

----------------------------------------------------------------------------
(* SpecPaging: a client of u1 pages through GET /sessions, passing each    *)
(* response's next_id as the next request's last_id, while CreateSession   *)
(* and DeleteSession requests of u1 are answered between its page          *)
(* requests.  prev is what the client has gathered: the rows of the pages  *)
(* so far, the cursor, and, as history, the rows of u1 that have been      *)
(* live in every table since the first page request.                       *)

\* encoding/json writes next_id in decimal digits.
RECURSIVE FormatUint(_)
FormatUint(n) ==
    IF n < 10 THEN <<DigitChars[n + 1]>>
    ELSE FormatUint(n \div 10) \o <<DigitChars[(n % 10) + 1]>>

PagingUser == ContextUser("u1")

\* The client before its first page request.
NoPages ==
    [sessions |-> <<>>, next_id |-> 0, has_more |-> TRUE, always |-> {},
     begun |-> FALSE]

PagingInit ==
    /\ \E k \in HandlerSeedCounts :
          sessions = {s \in HandlerSeedRows : s.id <= k}
    /\ nextID = 8
    /\ now = Instant(2025, 12, 31, 23, 59, 59, 1)
    /\ IdleCall
    /\ prev = NoPages
    /\ users = {}

\* The values of the `limit` parameter the client uses.
PagingLimits == {<<"1">>, <<"2">>, <<"3">>}

\* The next page request: the first one has no last_id.
PagingGetSessions ==
    /\ prev.has_more
    /\ \E l \in PagingLimits :
          GetSessions(PagingUser, l,
                      IF prev.begun THEN FormatUint(prev.next_id) ELSE <<>>,
                      FALSE)

PagingCreateSession ==
    CreateSession(PagingUser,
                  [duration_seconds |-> 60, session_type |-> "walking"], FALSE)

\* The sessions the client deletes: some of the older and of the newer
\* ones, the one it creates, and one of another user.
PagingDeleteIDs == {<<"2">>, <<"3">>, <<"5">>, <<"6">>, <<"7">>, <<"8">>}

PagingDeleteSession ==
    \E i \in PagingDeleteIDs : DeleteSession(PagingUser, i, "")

\* The rows of u1 that are live in every table of T.
LiveThroughout(T) ==
    {s \in UNION T : \A S \in T : s \in LiveSessions(S, "u1")}

\* The client takes the response.  A page is added to the pages gathered;
\* while the traversal has not ended, the rows that were deleted or created
\* by the request are no longer live throughout.
PagingReturn ==
    /\ TakeResult
    /\ prev' =
          IF request.handler = "GetSessions"
          THEN [sessions |-> prev.sessions \o response.body.sessions,
                next_id |-> response.body.next_id,
                has_more |-> response.body.has_more,
                always |-> IF prev.begun
                           THEN prev.always \cap LiveThroughout(seen)
                           ELSE LiveThroughout(seen),
                begun |-> TRUE]
          ELSE IF prev.begun /\ prev.has_more
          THEN [prev EXCEPT !.always = @ \cap LiveThroughout(seen)]
          ELSE prev

PagingNext ==
    \/ PagingGetSessions
    \/ PagingCreateSession
    \/ PagingDeleteSession
    \/ PagingReturn

SpecPaging == PagingInit /\ [][PagingNext]_vars

----------------------------------------------------------------------------
(* What the claims speak of, stated on the table itself *)

\* The calendar days on which user u has a session that is not deleted.
LiveDays(u) ==
    {DayOf(s.created_at) : s \in {x \in sessions : x.user_id = u /\ ~x.deleted}}

MaxDay(D) == CHOOSE d \in D : \A e \in D : e <= d

\* D holds the k days ending with day a.
RunEndsAt(D, a, k) == \A j \in 0..(k - 1) : (a - j) \in D

\* Length of the longest run of consecutive days in D.
LongestRunOf(D) ==
    CHOOSE k \in 0..Cardinality(D) :
        /\ k > 0 => \E a \in D : RunEndsAt(D, a, k)
        /\ ~ \E a \in D : RunEndsAt(D, a, k + 1)

\* Number of consecutive days of D counted backwards from day a.
RunBackFrom(D, a) ==
    CHOOSE k \in 0..Cardinality(D) : RunEndsAt(D, a, k) /\ (a - k) \notin D

\* The current streak of the dates D when today is day t.
CurrentOn(D, t) ==
    IF D = {} THEN 0
    ELSE IF MaxDay(D) \notin {t, t - 1} THEN 0
    ELSE RunBackFrom(D, MaxDay(D))

StreaksReturned ==
    pc = "done" /\ call = "CalculateStreaks" /\ result.status = "ok"

DashboardReturned ==
    pc = "done" /\ call = "GetDashboardData" /\ result.status = "ok"

\* The days the clock showed while the call ran.
DaysOfCall == DayOf(startNow)..DayOf(now)

----------------------------------------------------------------------------
(* Claims *)

\* C1: the longest streak that CalculateStreaks returns is the length of
\* the longest run of consecutive calendar days among the user's distinct
\* live session dates, and 0 when there is none.
C1_LongestIsLongestRun ==
    StreaksReturned =>
        result.data.streaks.longest = LongestRunOf(LiveDays(args.user))

\* A call returned for dates that form several runs, the longest of them
\* at least 3 days long.
C1_Witness ==
    /\ StreaksReturned
    /\ result.data.streaks.longest >= 3
    /\ Cardinality(LiveDays(args.user)) > result.data.streaks.longest + 1

\* C2: the current streak is 0 when the most recent session date is
\* neither today nor yesterday, and otherwise the number of consecutive
\* days in the set counted backwards from the most recent date; today is
\* the date at some moment of the call.
C2_CurrentIsRunFromAnchor ==
    StreaksReturned =>
        \E t \in DaysOfCall :
            result.data.streaks.current = CurrentOn(LiveDays(args.user), t)

\* A call returned a streak of at least 2 days anchored at yesterday, with
\* older dates beyond the first gap.
C2_Witness ==
    /\ StreaksReturned
    /\ DayOf(startNow) = DayOf(now)
    /\ LiveDays(args.user) # {}
    /\ MaxDay(LiveDays(args.user)) = DayOf(now) - 1
    /\ result.data.streaks.current >= 2
    /\ Cardinality(LiveDays(args.user)) > result.data.streaks.current

\* C3: a user without any live session gets current = 0 and longest = 0.
C3_NoSessionsNoStreak ==
    (StreaksReturned /\ LiveDays(args.user) = {}) =>
        result.data.streaks = [current |-> 0, longest |-> 0]

\* A call returned for a user whose only session is soft-deleted.
C3_Witness ==
    /\ StreaksReturned
    /\ LiveDays(args.user) = {}
    /\ \E s \in sessions : s.user_id = args.user /\ s.deleted
    /\ result.data.streaks = [current |-> 0, longest |-> 0]

\* C4: whenever current = 0 is returned, the user has no live session
\* dated today and none dated yesterday (today being the date at some
\* moment of the call), whatever dates the table holds.
C4_ZeroMeansMissedTodayAndYesterday ==
    (StreaksReturned /\ result.data.streaks.current = 0) =>
        \E t \in DaysOfCall :
            /\ t \notin LiveDays(args.user)
            /\ (t - 1) \notin LiveDays(args.user)

\* C5: when the most recent session date is older than yesterday, current
\* is 0 and longest is still the longest run: 10 consecutive days ending 3
\* days ago give 0 and 10, a single session two days ago gives 0 and 1.
C5_OldRunKeepsLongest ==
    StreaksReturned =>
        LET D == LiveDays(args.user)
            t == DayOf(startNow)
            got == result.data.streaks
        IN  /\ (D # {} /\ MaxDay(D) < t - 1) =>
                  got.current = 0 /\ got.longest = LongestRunOf(D)
            /\ D = (t - 12)..(t - 3) => got = [current |-> 0, longest |-> 10]
            /\ D = {t - 2} => got = [current |-> 0, longest |-> 1]

\* A call returned 0 and 10 for 10 consecutive days ending 3 days ago.
C5_Witness ==
    /\ StreaksReturned
    /\ LiveDays(args.user) = (DayOf(startNow) - 12)..(DayOf(startNow) - 3)
    /\ result.data.streaks = [current |-> 0, longest |-> 10]

\* C6: session dates today and 5 days ago, and no other, give current = 1
\* and longest = 1.
C6_TodayAndFiveDaysAgo ==
    (StreaksReturned
        /\ LiveDays(args.user) = {DayOf(startNow), DayOf(startNow) - 5}) =>
        result.data.streaks = [current |-> 1, longest |-> 1]

\* A call returned for exactly the dates today and 5 days ago.
C6_Witness ==
    /\ StreaksReturned
    /\ LiveDays(args.user) = {DayOf(startNow), DayOf(startNow) - 5}
    /\ result.data.streaks = [current |-> 1, longest |-> 1]

\* The live sessions of u as pairs <<date, duration_seconds>>.
LiveDated(u) ==
    {<<CivilFromDay(DayOf(s.created_at)), s.duration_seconds>> :
        s \in {x \in sessions : x.user_id = u /\ ~x.deleted}}

\* Seconds of the live sessions of u created on the date dateStr.
SecondsOn(u, dateStr) ==
    SumDuration({s \in sessions :
                    /\ s.user_id = u
                    /\ ~s.deleted
                    /\ CivilFromDay(DayOf(s.created_at)) = dateStr})

\* Seconds of the live sessions of u created from instant a to instant b.
SecondsBetween(u, a, b) ==
    SumDuration({s \in sessions :
                    /\ s.user_id = u
                    /\ ~s.deleted
                    /\ a <= s.created_at
                    /\ s.created_at <= b})

\* The first instant of the month after month m of year y.
NextMonthFirstInstant(y, m) ==
    IF m = 12 THEN Instant(y + 1, 1, 1, 0, 0, 0, 0)
    ELSE Instant(y, m + 1, 1, 0, 0, 0, 0)

\* The table holds, for the caller, the sessions of 2025-07-01 (600 s),
\* 2025-07-02 (900 s) and 2025-07-03 (300 s), and the call ran on
\* 2025-07-03.
July3Scenario ==
    /\ LiveDated(args.user) = {<< <<2025, 7, 1>>, 600 >>,
                               << <<2025, 7, 2>>, 900 >>,
                               << <<2025, 7, 3>>, 300 >>}
    /\ CivilFromDay(DayOf(startNow)) = <<2025, 7, 3>>
    /\ DayOf(now) = DayOf(startNow)

\* C7: with sessions on 2025-07-01 (600 s), 2025-07-02 (900 s) and
\* 2025-07-03 (300 s) and today = 2025-07-03 the dashboard gives current =
\* longest = 3, 5 minutes for 2025-07-03 in the weekly progress and 30
\* minutes for July 2025; and sessions on n consecutive days ending today
\* give current = longest = n.
C7_JulyScenario ==
    DashboardReturned =>
        LET D == LiveDays(args.user)
            t == DayOf(startNow)
            data == result.data
        IN  /\ (D # {} /\ DayOf(now) = t /\ D = (t - Cardinality(D) + 1)..t) =>
                  data.streaks = [current |-> Cardinality(D),
                                  longest |-> Cardinality(D)]
            /\ July3Scenario =>
                  /\ data.streaks = [current |-> 3, longest |-> 3]
                  /\ \E k \in 1..Len(data.weekly_progress) :
                        /\ data.weekly_progress[k].date = <<2025, 7, 3>>
                        /\ data.weekly_progress[k].minutes = 5
                  /\ (args.year = 2025 \/ args.year <= 0) =>
                        /\ data.yearly_progress[7].month = "Jul"
                        /\ data.yearly_progress[7].minutes = 30

\* The dashboard returned for the scenario of 2025-07-03.
C7_Witness ==
    /\ DashboardReturned
    /\ July3Scenario
    /\ args.year <= 0
    /\ result.data.streaks = [current |-> 3, longest |-> 3]
    /\ result.data.weekly_progress[7] =
          [day |-> "Thu", date |-> <<2025, 7, 3>>, minutes |-> 5]
    /\ result.data.yearly_progress[7].minutes = 30

\* GetWeeklyProgress has returned to GetDashboardData without an error.
WeeklyReturned ==
    /\ call = "GetDashboardData"
    /\ pc \in {"year", "yearly", "recent"} \/ (pc = "done" /\ result.status = "ok")

\* C8: GetWeeklyProgress returns exactly 7 entries on every successful
\* call, and every entry for a day on which the user has no live session
\* has minutes = 0.
C8_WeeklySevenEntries ==
    /\ WeeklyReturned => Len(weekly) = 7
    /\ DashboardReturned => result.data.weekly_progress = weekly
    /\ \A k \in 1..Len(weekly) :
          (~ \E s \in sessions :
                /\ s.user_id = args.user
                /\ ~s.deleted
                /\ CivilFromDay(DayOf(s.created_at)) = weekly[k].date) =>
              weekly[k].minutes = 0

\* The dashboard returned 7 weekly entries, one for 2025-06-29, on which
\* the caller has a soft-deleted session only, with 0 minutes, and one with
\* minutes.
C8_Witness ==
    /\ DashboardReturned
    /\ Len(result.data.weekly_progress) = 7
    /\ \E s \in sessions :
          /\ s.user_id = args.user
          /\ s.deleted
          /\ CivilFromDay(DayOf(s.created_at)) = <<2025, 6, 29>>
    /\ \E k \in 1..7 :
          /\ result.data.weekly_progress[k].date = <<2025, 6, 29>>
          /\ result.data.weekly_progress[k].minutes = 0
    /\ \E k \in 1..7 : result.data.weekly_progress[k].minutes > 0

\* C9: the 7 entries carry the 7 consecutive dates today-6 .. today, oldest
\* first, for every moment at which the call runs (today being the date at
\* some moment of the call), each with floor(S / 60) minutes, S the seconds
\* of the user's live sessions of that date.
C9_WeekEndsToday ==
    DashboardReturned =>
        \E t \in DaysOfCall :
            \A k \in 1..7 :
                /\ result.data.weekly_progress[k].date = CivilFromDay(t - 7 + k)
                /\ result.data.weekly_progress[k].minutes =
                      SecondsOn(args.user, CivilFromDay(t - 7 + k)) \div 60

\* C10: GetYearlyProgress returns exactly 12 entries labelled Jan..Dec in
\* calendar order, and each entry's minutes is floor(S / 60), S the seconds
\* of the user's live sessions created from the first instant of the month
\* to one second before the first instant of the next month, inclusive.
C10_YearlyTwelveMonths ==
    (call = "GetDashboardData"
        /\ (pc = "recent" \/ (pc = "done" /\ result.status = "ok"))) =>
        /\ Len(yearly) = 12
        /\ DashboardReturned => result.data.yearly_progress = yearly
        /\ \A m \in 1..12 :
              /\ yearly[m].month =
                    <<"Jan", "Feb", "Mar", "Apr", "May", "Jun", "Jul", "Aug",
                      "Sep", "Oct", "Nov", "Dec">>[m]
              /\ yearly[m].minutes =
                    SecondsBetween(args.user, Instant(year, m, 1, 0, 0, 0, 0),
                                   NextMonthFirstInstant(year, m)
                                       - TicksPerSecond) \div 60

\* The dashboard returned the year 2025 for a user with a session at
\* 2025-06-30T23:59:59 and one later within that second: June has the
\* minute of the first only, July has minutes, January has none.
C10_Witness ==
    /\ DashboardReturned
    /\ year = 2025
    /\ \E s \in sessions :
          /\ s.user_id = args.user /\ ~s.deleted
          /\ s.created_at = Instant(2025, 6, 30, 23, 59, 59, 0)
    /\ \E s \in sessions :
          /\ s.user_id = args.user /\ ~s.deleted
          /\ s.created_at > Instant(2025, 6, 30, 23, 59, 59, 0)
          /\ s.created_at < Instant(2025, 7, 1, 0, 0, 0, 0)
    /\ result.data.yearly_progress[6].minutes = 1
    /\ result.data.yearly_progress[7].minutes >= 10
    /\ result.data.yearly_progress[1].minutes = 0

\* The minutes of the entries of a progress list, added up.
RECURSIVE SumMinutes(_)
SumMinutes(progress) ==
    IF progress = <<>> THEN 0
    ELSE progress[1].minutes + SumMinutes(Tail(progress))

\* The seconds of the live sessions that user u created in the year y.
SecondsInYear(u, y) ==
    SecondsBetween(u, Instant(y, 1, 1, 0, 0, 0, 0),
                   Instant(y + 1, 1, 1, 0, 0, 0, 0) - 1)

\* C11: the minutes of the 12 entries of GetYearlyProgress add up to the
\* total duration, in whole minutes, of the user's live sessions created in
\* that year.
C11_YearlyMinutesSumToTotal ==
    DashboardReturned =>
        SumMinutes(result.data.yearly_progress) =
            SecondsInYear(args.user, year) \div 60

\* A call that ends with GetRecentSessions has returned its sessions.
RecentReturned ==
    /\ pc = "done"
    /\ call \in {"GetRecentSessions", "GetDashboardData"}
    /\ result.status = "ok"

\* The sessions of user u that are not deleted.
LiveOf(u) == {s \in sessions : s.user_id = u /\ ~s.deleted}

\* The decimal text of the natural number n.
RECURSIVE Decimal(_)
Decimal(n) ==
    IF n < 10 THEN <<DigitChars[n + 1]>>
    ELSE Append(Decimal(n \div 10), DigitChars[(n % 10) + 1])

\* The number of sessions asked for by the limit l.
EffectiveLimit(l) == IF l \in 1..100 THEN l ELSE 5

\* The limit that the text of the `sessions` parameter stands for.
LimitMeant(text) ==
    IF \E n \in 1..100 : Decimal(n) = text
    THEN CHOOSE n \in 1..100 : Decimal(n) = text
    ELSE 5

\* C12: GetRecentSessions with limit L returns min(L', n) sessions, n the
\* number of live sessions of the user and L' = 5 when L <= 0 or L > 100,
\* L' = L otherwise; the dashboard handler passes 5 for a `sessions`
\* parameter that is missing, unparsable or out of 1..100.
C12_RecentLimit ==
    /\ RecentReturned =>
          Len(result.data.recent_sessions) =
              IF EffectiveLimit(args.limit) < Cardinality(LiveOf(args.user))
              THEN EffectiveLimit(args.limit)
              ELSE Cardinality(LiveOf(args.user))
    /\ (request.handler = "GetDashboard" /\ call = "GetDashboardData") =>
          args.limit = LimitMeant(request.sessions)

\* GetRecentSessions was called with limit 500 for a user with 6 live
\* sessions and returned 5 of them.
C12_Witness ==
    /\ RecentReturned
    /\ call = "GetRecentSessions"
    /\ args.limit = 500
    /\ Cardinality(LiveOf(args.user)) = 6
    /\ Len(result.data.recent_sessions) = 5

\* C13: the sessions that GetRecentSessions returns are live sessions of
\* the requested user, latest creation first, and they are the most recent
\* ones: no live session of the user that is left out was created later
\* than a returned one.
C13_RecentAreLatest ==
    RecentReturned =>
        LET rs == result.data.recent_sessions
        IN  /\ \A i \in 1..Len(rs) : rs[i] \in LiveOf(args.user)
            /\ \A i \in 1..Len(rs) : \A j \in i..Len(rs) :
                  rs[i].created_at >= rs[j].created_at
            /\ \A s \in LiveOf(args.user) :
                  (\A i \in 1..Len(rs) : rs[i] # s) =>
                      \A i \in 1..Len(rs) : s.created_at <= rs[i].created_at

\* Two sessions were returned while the user has older live sessions, a
\* deleted session created after the returned ones, and the table holds a
\* session of another user created after the second returned one.
C13_Witness ==
    /\ RecentReturned
    /\ Len(result.data.recent_sessions) = 2
    /\ result.data.recent_sessions[1].created_at
          > result.data.recent_sessions[2].created_at
    /\ Cardinality(LiveOf(args.user)) > 2
    /\ \E s \in sessions :
          /\ s.user_id = args.user /\ s.deleted
          /\ s.created_at > result.data.recent_sessions[1].created_at
    /\ \E s \in sessions :
          /\ s.user_id # args.user /\ ~s.deleted
          /\ s.created_at > result.data.recent_sessions[2].created_at

\* The texts that are the decimal form of a year from 1900 to 3000.
YearTextSet == {Decimal(n) : n \in 1900..3000}

\* The year that the text of the `year` parameter stands for, 0 for none.
YearMeant(text) ==
    IF text \in YearTextSet
    THEN CHOOSE n \in 1900..3000 : Decimal(n) = text
    ELSE 0

\* The year y was the current year at some moment of the call.
CurrentYearOfCall(y) ==
    /\ Instant(y, 1, 1, 0, 0, 0, 0) <= now
    /\ startNow < Instant(y + 1, 1, 1, 0, 0, 0, 0)

\* The yearly progress of user u for the year y.
IsYearlyProgressOf(progress, u, y) ==
    /\ Len(progress) = 12
    /\ \A m \in 1..12 :
          progress[m].minutes =
              SecondsBetween(u, Instant(y, m, 1, 0, 0, 0, 0),
                             NextMonthFirstInstant(y, m) - TicksPerSecond)
                  \div 60

\* The dashboard handler has answered a request of an authenticated user.
DashboardAnswered ==
    /\ pc = "done"
    /\ request.handler = "GetDashboard"
    /\ call = "GetDashboardData"

\* C14: GetDashboardData with year <= 0 computes the yearly progress of the
\* year that is current while the call runs; the handler passes 0 when the
\* `year` parameter is missing, not an integer, below 1900 or above 3000,
\* and it answers such a request with 200 (with 500 when a store query
\* fails, never with a rejection of the parameter).
C14_YearDefaultsToCurrent ==
    /\ (DashboardReturned /\ args.year <= 0) =>
          \E y \in EpochYear..(LastYear - 1) :
              /\ CurrentYearOfCall(y)
              /\ IsYearlyProgressOf(result.data.yearly_progress, args.user, y)
    /\ (request.handler = "GetDashboard" /\ call = "GetDashboardData") =>
          args.year = YearMeant(request.year)
    /\ DashboardAnswered =>
          response.status = IF result.status = "ok" THEN 200 ELSE 500

\* A request with year=3001 was answered 200 with the progress of 2025: the
\* caller's minutes are in December.
C14_Witness ==
    /\ DashboardAnswered
    /\ request.year = <<"3", "0", "0", "1">>
    /\ response.status = 200
    /\ CurrentYearOfCall(2025)
    /\ ~CurrentYearOfCall(2026)
    /\ response.body.yearly_progress[12].minutes >= 10
    /\ IsYearlyProgressOf(response.body.yearly_progress, args.user, 2025)

\* The locals of the running call.
locals == <<sessionDates, today, streaks, weekly, yearly, year, recent>>

\* The call has returned the error of a store query.
CallFailed == pc = "done" /\ result.status = "error"

\* Where the call stood when the query named by its error failed: the
\* sub-operations before it have run, those after it have not.
StoppedAtFailure ==
    /\ result.err \in {"getSessionDates", "weekly", "yearly", "recent"}
    /\ result.err = "getSessionDates" =>
          sessionDates = <<>> /\ streaks = NoStreaks /\ weekly = <<>>
    /\ result.err = "weekly" => Len(weekly) < 7
    /\ result.err \in {"getSessionDates", "weekly"} => year = 0 /\ yearly = <<>>
    /\ result.err = "yearly" => Len(weekly) = 7 /\ Len(yearly) < 12
    /\ (result.err = "recent" /\ call = "GetDashboardData") =>
          Len(weekly) = 7 /\ Len(yearly) = 12
    /\ recent = <<>>

\* C15: when a store query of one of the four sub-operations fails,
\* GetDashboardData returns that error as it is, with a nil result; it runs
\* no later sub-operation, does not retry, and returns no partial
\* DashboardData; the handler answers 500.
C15_FailFast ==
    /\ [](CallFailed =>
            /\ result.data = NoData
            /\ StoppedAtFailure
            /\ request.handler = "GetDashboard" =>
                  /\ response.status = 500
                  /\ response.body.error = "Failed to retrieve dashboard data"
                  /\ response.body.details = result.err)
    /\ [][(result.status # "error" /\ result'.status = "error") =>
              /\ result'.err = pc
              /\ locals' = locals]_vars
    /\ [][CallFailed => (pc' = "idle" \/ UNCHANGED callVars)]_vars

\* The dashboard handler answered 500 to a request whose fifth monthly
\* query failed, after the streaks and the week had been computed.
C15_Witness ==
    /\ CallFailed
    /\ request.handler = "GetDashboard"
    /\ response.status = 500
    /\ result.err = "yearly"
    /\ Len(yearly) = 4
    /\ streaks.longest >= 3
    /\ \E k \in 1..7 : weekly[k].minutes > 0

----------------------------------------------------------------------------
(* What a dashboard computed from one table T looks like *)

\* The sessions of user u in the table T that are not deleted.
LiveIn(T, u) == {s \in T : s.user_id = u /\ ~s.deleted}

\* The calendar days on which u has a live session in T.
DaysIn(T, u) == {DayOf(s.created_at) : s \in LiveIn(T, u)}

\* Seconds of the live sessions of u in T created on day d.
SecondsOnIn(T, u, d) ==
    SumDuration({s \in LiveIn(T, u) : DayOf(s.created_at) = d})

\* Seconds of the live sessions of u in T created from instant a to b.
SecondsBetweenIn(T, u, a, b) ==
    SumDuration({s \in LiveIn(T, u) : a <= s.created_at /\ s.created_at <= b})

\* rs holds the n most recent live sessions of u in T, or all of them when
\* there are fewer, latest first.
IsRecentOf(rs, T, u, n) ==
    /\ Len(rs) = IF n < Cardinality(LiveIn(T, u)) THEN n
                 ELSE Cardinality(LiveIn(T, u))
    /\ \A i \in 1..Len(rs) : rs[i] \in LiveIn(T, u)
    /\ \A i \in 1..Len(rs) : \A j \in 1..Len(rs) :
          /\ i < j => rs[i].created_at >= rs[j].created_at
          /\ i # j => rs[i] # rs[j]
    /\ \A s \in LiveIn(T, u) :
          (\A i \in 1..Len(rs) : rs[i] # s) =>
              \A i \in 1..Len(rs) : s.created_at <= rs[i].created_at

\* data is a dashboard of user u computed from the table T on day t, for
\* the year y and with the session limit l.
ComputedFrom(data, T, u, t, y, l) ==
    /\ data.user = u
    /\ data.streaks = [current |-> CurrentOn(DaysIn(T, u), t),
                       longest |-> LongestRunOf(DaysIn(T, u))]
    /\ Len(data.weekly_progress) = 7
    /\ \A k \in 1..7 :
          /\ data.weekly_progress[k].date = CivilFromDay(t - 7 + k)
          /\ data.weekly_progress[k].minutes =
                SecondsOnIn(T, u, t - 7 + k) \div 60
    /\ Len(data.yearly_progress) = 12
    /\ \A m \in 1..12 :
          data.yearly_progress[m].minutes =
              SecondsBetweenIn(T, u, Instant(y, m, 1, 0, 0, 0, 0),
                               NextMonthFirstInstant(y, m) - TicksPerSecond)
                  \div 60
    /\ IsRecentOf(data.recent_sessions, T, u, EffectiveLimit(l))

\* The years a call may have computed its yearly progress for.
YearsOfCall ==
    IF args.year > 0 THEN {args.year}
    ELSE {y \in EpochYear..(LastYear - 1) : CurrentYearOfCall(y)}

\* The table without its soft-deleted rows.
Remaining == {s \in sessions : ~s.deleted}

\* Each value of data is computed from the table T, each weekly entry for
\* the date it carries, whatever the clock showed during the call.
EachComputedFrom(data, T, u, l) ==
    /\ data.streaks.longest = LongestRunOf(DaysIn(T, u))
    /\ \A k \in 1..Len(data.weekly_progress) :
          LET date == data.weekly_progress[k].date
          IN  data.weekly_progress[k].minutes =
                  SecondsOnIn(T, u, DayNumber(date[1], date[2], date[3]))
                      \div 60
    /\ \E y \in YearsOfCall :
          \A m \in 1..12 :
              data.yearly_progress[m].minutes =
                  SecondsBetweenIn(T, u, Instant(y, m, 1, 0, 0, 0, 0),
                                   NextMonthFirstInstant(y, m) - TicksPerSecond)
                      \div 60
    /\ IsRecentOf(data.recent_sessions, T, u, EffectiveLimit(l))

\* C16: once DeleteSession has succeeded, every later GetDashboardData for
\* the owner returns the values computed from the remaining sessions only:
\* the longest streak, the minutes of each weekly and monthly entry and the
\* recent sessions in every call, and the whole dashboard of the day,
\* current streak included, in a call during which the date does not change.
C16_DeletedSessionsDoNotCount ==
    (DashboardReturned /\ startSessions = sessions) =>
        /\ EachComputedFrom(result.data, Remaining, args.user, args.limit)
        /\ DayOf(startNow) = DayOf(now) =>
              \E y \in YearsOfCall :
                  ComputedFrom(result.data, Remaining, args.user, DayOf(now),
                               y, args.limit)

\* u1 has deleted the session of 2025-12-31 and then asked for the
\* dashboard on that day: the day shows no minutes, the streak of five days
\* ends yesterday, and the deleted session is not among the recent ones.
C16_Witness ==
    /\ DashboardReturned
    /\ DayOf(startNow) = DayOf(now)
    /\ args.user = "u1"
    /\ \E s \in sessions : s.id = 6 /\ s.deleted
    /\ Cardinality(LiveOf("u1")) = 5
    /\ result.data.weekly_progress[7].date = <<2025, 12, 31>>
    /\ result.data.weekly_progress[7].minutes = 0
    /\ result.data.weekly_progress[6].minutes = 10
    /\ result.data.streaks = [current |-> 5, longest |-> 5]
    /\ Len(result.data.recent_sessions) = 5

\* C17: GetDashboardData and its sub-operations only read: a step of a
\* call changes no row of the table; nothing of a call is kept after it;
\* and two calls with the same arguments, the same table and the same
\* current date return equal results.
C17_ReadOnlyStatelessDeterministic ==
    /\ [][callVars' # callVars => (sessions' = sessions /\ nextID' = nextID)]_vars
    /\ [](pc = "idle" => IdleCall)
    /\ []((/\ DashboardReturned
           /\ seen = {sessions}
           /\ prev.args = args
           /\ prev.tables = {sessions}
           /\ prev.date = CivilFromDay(DayOf(startNow))
           /\ prev.date = CivilFromDay(DayOf(now)))
              => result.data = prev.data)

\* The first two parts of C17 on their own.
C17_ReadOnlyStateless ==
    /\ [][callVars' # callVars => (sessions' = sessions /\ nextID' = nextID)]_vars
    /\ [](pc = "idle" => IdleCall)

\* C18: every DashboardData returned is computed from one table that the
\* store held at some moment between the start of the call and its return,
\* also when sessions of the user are created and deleted meanwhile.
C18_OneSnapshot ==
    DashboardReturned =>
        \E T \in seen : \E y \in YearsOfCall :
            ComputedFrom(result.data, T, args.user, DayOf(now), y, args.limit)

----------------------------------------------------------------------------
(* The handlers *)

\* The handler named h has answered a request.
Answered(h) == pc = "done" /\ request.handler = h

UserHandlers ==
    {"GetDashboard", "CreateSession", "GetSessions", "DeleteSession",
     "GetUserProfile"}

\* C19: each of GetDashboard, CreateSession, GetSessions, DeleteSession and
\* GetUserProfile answers 401 "User not found" when the context holds no
\* "user" value or one that is not a User; it then runs no query and leaves
\* the table as it is.
C19_NoUserNoAccess ==
    /\ [](\A h \in UserHandlers :
            (Answered(h) /\ request.user.kind # "User") =>
                /\ response = [status |-> 401,
                               body |-> [error |-> "User not found"]]
                /\ call = "none"
                /\ result = NoResult
                /\ sessions = startSessions)
    /\ [][(request'.handler \in UserHandlers /\ request'.user.kind # "User") =>
              (sessions' = sessions /\ nextID' = nextID)]_vars

\* DeleteSession was asked, with a context value that is not a User, to
\* delete an existing session; it answered 401 and the session is live.
C19_Witness ==
    /\ Answered("DeleteSession")
    /\ request.user = NotAUser
    /\ request.id = <<"6">>
    /\ response.status = 401
    /\ \E s \in sessions : s.id = 6 /\ ~s.deleted

\* What the body of a CreateSession request gives.
DurationGiven(body) ==
    "duration_seconds" \in DOMAIN body /\ body.duration_seconds >= 1
TypeGiven(body) ==
    /\ "session_type" \in DOMAIN body
    /\ body.session_type \in {"mindfulness", "breathing", "metta", "body_scan",
                              "walking", "other"}
NotesGiven(body) == IF "notes" \in DOMAIN body THEN body.notes ELSE ""

\* C20: CreateSession stores a session exactly when the caller is
\* authenticated, duration_seconds is present and >= 1 and session_type is
\* one of the six types; it then answers 201 and the table has exactly one
\* more session, live, with the caller's id and the given duration, type
\* and notes.  A missing, zero or negative duration or an unknown type is
\* answered 400 with the table unchanged.  (When the store refuses the
\* insert the answer is 500 and the table is unchanged.)
C20_CreateSessionValidates ==
    Answered("CreateSession") =>
        LET body == request.body
            wellFormed == /\ request.user.kind = "User"
                          /\ DurationGiven(body)
                          /\ TypeGiven(body)
        IN  /\ wellFormed <=> response.status \in {201, 500}
            /\ response.status = 201 <=> sessions # startSessions
            /\ response.status = 201 =>
                  \E s \in sessions :
                      /\ s \notin startSessions
                      /\ sessions = startSessions \cup {s}
                      /\ \A z \in startSessions : z.id # s.id
                      /\ s.user_id = request.user.id
                      /\ s.duration_seconds = body.duration_seconds
                      /\ s.session_type = body.session_type
                      /\ s.notes = NotesGiven(body)
                      /\ ~s.deleted
                      /\ response.body.session = s
            /\ (request.user.kind = "User"
                   /\ ~(DurationGiven(body) /\ TypeGiven(body))) =>
                  response.status = 400

\* u2 has created a session of 1 second with notes while the table held
\* sessions of u1 and u2.
C20_Witness ==
    /\ Answered("CreateSession")
    /\ request.user = ContextUser("u2")
    /\ response.status = 201
    /\ Cardinality(startSessions) = 7
    /\ Cardinality(sessions) = 8
    /\ \E s \in sessions :
          /\ s.id = 8 /\ s.user_id = "u2" /\ s.duration_seconds = 1
          /\ s.session_type = "body_scan" /\ s.notes = "calm"

\* The number that a text of decimal digits stands for, 0 when the text is
\* no such number between 1 and 100.
NumberMeant(text) ==
    IF \E n \in 1..100 : Decimal(n) = text
    THEN CHOOSE n \in 1..100 : Decimal(n) = text
    ELSE 0

\* GetSessions has answered 200.
SessionsListed == Answered("GetSessions") /\ response.status = 200

\* The live sessions of the caller below the cursor of the request.
BelowCursor ==
    LET lastID == NumberMeant(request.last_id)
    IN  {s \in LiveIn(startSessions, request.user.id) :
            lastID > 0 => s.id < lastID}

\* The effective limit of the request.
PageLimit ==
    IF NumberMeant(request.limit) = 0 THEN 20 ELSE NumberMeant(request.limit)

\* C21: GetSessions returns the L highest-id live sessions of the caller
\* below the cursor (all of them when the cursor is missing, 0 or
\* unparsable), in descending id order, L being the limit or 20 when the
\* limit is missing, unparsable, < 1 or > 100; has_more tells whether more
\* than L such sessions exist, and next_id is the id of the last returned
\* session when has_more is true and absent otherwise.
C21_GetSessionsPage ==
    SessionsListed =>
        LET page == response.body.sessions
            returned == {page[i] : i \in 1..Len(page)}
        IN  /\ returned \subseteq BelowCursor
            /\ Len(page) = IF Cardinality(BelowCursor) > PageLimit
                           THEN PageLimit ELSE Cardinality(BelowCursor)
            /\ \A i \in 1..(Len(page) - 1) : page[i].id > page[i + 1].id
            /\ \A s \in BelowCursor \ returned, r \in returned : s.id < r.id
            /\ response.body.has_more = (Cardinality(BelowCursor) > PageLimit)
            /\ response.body.next_id =
                  IF response.body.has_more THEN page[Len(page)].id ELSE 0

\* A first page of two of the caller's six sessions was returned, with the
\* id of its last session as next_id.
C21_Witness ==
    /\ SessionsListed
    /\ Cardinality(LiveIn(startSessions, request.user.id)) = 6
    /\ request.last_id = <<>>
    /\ response.body.has_more
    /\ Len(response.body.sessions) = 2
    /\ response.body.sessions[1].id = 6
    /\ response.body.next_id = 5

\* The unsigned integer that a text stands for, -1 when it is none.
IDMeant(text) ==
    IF \E n \in 0..100 : Decimal(n) = text
    THEN CHOOSE n \in 0..100 : Decimal(n) = text
    ELSE 0 - 1

\* DeleteSession has answered a request that carries a user.
DeleteAnswered == Answered("DeleteSession") /\ request.user.kind = "User"

\* The live sessions of the caller that the id of the request names.
Named ==
    {s \in startSessions : /\ s.id = IDMeant(request.id)
                           /\ s.user_id = request.user.id
                           /\ ~s.deleted}

\* The rows whose deleted marker the request has changed, as they were.
Marked ==
    {s \in startSessions :
        \A z \in sessions : z.id = s.id => z.deleted # s.deleted}

\* C22: DeleteSession answers 400 "Invalid session ID" when the id is not
\* an unsigned integer, 404 "Session not found" when the id names no session
\* of the caller, and then no deleted marker changes; when it answers 200
\* exactly the named session of the caller becomes soft-deleted; whatever
\* the answer, only a session of the caller is ever marked and no row is
\* removed or otherwise changed.
C22_DeleteOnlyOwnSession ==
    DeleteAnswered =>
        /\ IDMeant(request.id) < 0 =>
              response = ErrorResponse(400, "Invalid session ID")
        /\ (IDMeant(request.id) >= 0 /\ Named = {}) =>
              response = ErrorResponse(404, "Session not found")
        /\ response.status # 200 => sessions = startSessions
        /\ response.status = 200 =>
              /\ Cardinality(Named) = 1
              /\ Marked = Named
              /\ sessions = (startSessions \ Named)
                               \cup {[s EXCEPT !.deleted = TRUE] : s \in Named}
        /\ \A s \in Marked : s.user_id = request.user.id

\* u1 asked to delete session 7 of u2, which exists: the answer was 404 and
\* the session is still live.
C22_Witness ==
    /\ DeleteAnswered
    /\ request.user.id = "u1"
    /\ IDMeant(request.id) = 7
    /\ \E s \in sessions : s.id = 7 /\ s.user_id = "u2" /\ ~s.deleted
    /\ response.status = 404

----------------------------------------------------------------------------
(* The middleware and the webhook *)

\* The protected route has answered a request.
ProtectedAnswered ==
    /\ pc = "done"
    /\ request.handler = "GetUserProfile"
    /\ "authorization" \in DOMAIN request

\* The header is "Bearer", one space and a token without a space.
IsBearerToken(header) ==
    /\ Len(header) >= 7
    /\ SubSeq(header, 1, 7) = <<"B", "e", "a", "r", "e", "r", " ">>
    /\ \A i \in 8..Len(header) : header[i] # " "

\* The users that the request may act as: the non-deleted users with the
\* clerk id that a 200 answer of Clerk with a decodable body names, when the
\* header is well formed and the secret key is configured.
Authenticated ==
    IF /\ IsBearerToken(request.authorization)
       /\ request.secret # ""
       /\ ~request.clerk.failed
       /\ request.clerk.status = 200
       /\ request.clerk.decodable
    THEN {u \in startUsers :
             u.clerk_user_id = request.clerk.sub /\ ~u.deleted}
    ELSE {}

\* C23: the request reaches the protected handler only when the header is
\* "Bearer <token>", the secret key is configured, Clerk answers 200 with a
\* decodable body and a non-deleted user has the returned clerk id, and
\* then as that user; a request that does not reach the handler is
\* answered 401, the chain is aborted and no user is in the context; in
\* every other case than the one above the request does not reach it.
C23_OnlyAuthenticatedReachHandler ==
    ProtectedAnswered =>
        /\ context.handled =>
              /\ \E u \in Authenticated : context.user = ContextUser(u.id)
              /\ ~context.aborted
        /\ Authenticated = {} => ~context.handled
        /\ ~context.handled =>
              /\ response.status = 401
              /\ context.aborted
              /\ context.user = NoUser
        /\ users = startUsers

\* A request with "Bearer t" whose token Clerk resolved to the clerk id of
\* u1 reached the handler as u1.
C23_Witness ==
    /\ ProtectedAnswered
    /\ context.handled
    /\ context.user = ContextUser("u1")
    /\ request.clerk.sub = "c1"
    /\ response.status = 200

\* The webhook has answered a request.
WebhookAnswered == pc = "done" /\ request.handler = "VerifyClerkWebhook"

\* The entries of a header: its longest pieces without a space.
Entries(header) ==
    LET n == Len(header)
        ends == {p \in (1..n) \X (1..n) :
                    /\ p[1] <= p[2]
                    /\ p[1] = 1 \/ header[p[1] - 1] = " "
                    /\ p[2] = n \/ header[p[2] + 1] = " "
                    /\ \A k \in p[1]..p[2] : header[k] # " "}
    IN  {SubSeq(header, p[1], p[2]) : p \in ends}

\* Some entry of the header is "v1," followed by the digest of
\* timestamp + "." + bytes under the secret.
CarriesSignature(header, bytes, timestamp, secret) ==
    \E e \in Entries(header) :
        e = <<"v", "1", ",">>
                \o HmacSHA256Hex(secret, timestamp \o <<".">> \o bytes)

\* The request is validly signed: secret and headers are there, the body
\* can be read, and the header carries the signature of the body.
ValidlySigned ==
    /\ request.secret # ""
    /\ request.signature # <<>>
    /\ request.timestamp # <<>>
    /\ ~request.unreadable
    /\ CarriesSignature(request.signature, request.payload.bytes,
                        request.timestamp, request.secret)

HandledTypes == {"user.created", "user.updated", "user.deleted"}

\* C24: the webhook answers 500 without a secret key; else 400 without a
\* svix-signature header; else 400 without a svix-timestamp header; else,
\* the body being read, 401 when the signature does not match; else 400
\* when the body is no JSON event; else 200 "Event type not handled" for an
\* event type other than the three handled ones; in all these cases the
\* users table is unchanged, and it changes only on a validly signed
\* request.
C24_WebhookChecksInOrder ==
    WebhookAnswered =>
        LET r == request
            checked ==
                IF r.secret = ""
                THEN ErrorResponse(500, "Clerk secret key not configured")
                ELSE IF r.signature = <<>>
                THEN ErrorResponse(400, "Missing signature header")
                ELSE IF r.timestamp = <<>>
                THEN ErrorResponse(400, "Missing timestamp header")
                ELSE IF r.unreadable THEN response
                ELSE IF ~ValidlySigned
                THEN ErrorResponse(401, "Invalid signature")
                ELSE IF "type" \notin DOMAIN r.payload.json
                THEN ErrorResponse(400, "Invalid JSON payload")
                ELSE IF r.payload.json.type \notin HandledTypes
                THEN [status |-> 200,
                      body |-> [message |-> "Event type not handled"]]
                ELSE response
        IN  /\ response = checked
            /\ users # startUsers =>
                  /\ ValidlySigned
                  /\ "type" \in DOMAIN r.payload.json
                  /\ r.payload.json.type \in HandledTypes

\* A user.created event for a new clerk id came with a signature made
\* under another key: the answer was 401 and the table is unchanged.
C24_Witness ==
    /\ WebhookAnswered
    /\ request.secret # ""
    /\ request.signature # <<>>
    /\ request.timestamp = <<"1">>
    /\ ~request.unreadable
    /\ request.payload.json = [type |-> "user.created",
                               data |-> ClerkUser("c3",
                                   <<Address("old@example.com", FALSE),
                                     Address("new@example.com", TRUE)>>,
                                   "Cy", "Three")]
    /\ response = ErrorResponse(401, "Invalid signature")
    /\ users = startUsers
    /\ \A u \in users : u.clerk_user_id # "c3"


\* A direct call of verifySignature has returned.
SignatureChecked == pc = "done" /\ call = "verifySignature"

\* C25: verifySignature(payload, header, timestamp, secret) is true exactly
\* when some space-separated entry of the header is "v1," followed by the hex
\* HMAC-SHA256 of timestamp + "." + payload under the secret; it is false
\* for an empty header, for a header whose entries lack the "v1," prefix,
\* and when no entry matches.
C25_VerifySignatureExact ==
    SignatureChecked =>
        /\ result.data = CarriesSignature(request.signature, request.payload,
                                          request.timestamp, request.secret)
        /\ request.signature = <<>> => result.data = FALSE
        /\ (\A e \in Entries(request.signature) :
                Len(e) < 3 \/ SubSeq(e, 1, 3) # <<"v", "1", ",">>)
             => result.data = FALSE

\* The matching entry is the second of two; the first was made under
\* another key.
C25_Witness ==
    /\ SignatureChecked
    /\ result.data = TRUE
    /\ Cardinality(Entries(request.signature)) = 2
    /\ request.timestamp = <<"1">>
    /\ request.secret = "whsec"
    /\ request.signature[Len(request.signature)]
         = ToString(<<"whsec", <<"1", ".">> \o request.payload>>)



\* A validly signed, decodable event of the given type has been answered.
EventAnswered(type) ==
    /\ WebhookAnswered
    /\ ValidlySigned
    /\ "type" \in DOMAIN request.payload.json
    /\ request.payload.json.type = type

\* The user of the answered event.
EventUser == request.payload.json.data

\* The first address marked primary, otherwise the first listed address,
\* otherwise the empty string.
PrimaryOrFirst(addrs) ==
    IF \E i \in 1..Len(addrs) : addrs[i].primary
    THEN addrs[CHOOSE i \in 1..Len(addrs) :
                   /\ addrs[i].primary
                   /\ \A k \in 1..(i - 1) : ~addrs[k].primary].email_address
    ELSE IF Len(addrs) > 0 THEN addrs[1].email_address
    ELSE ""

\* The same, with a primary entry of empty address passed over for the
\* first listed address.
NonEmptyPrimaryOrFirst(addrs) ==
    IF PrimaryOrFirst(addrs) # "" THEN PrimaryOrFirst(addrs)
    ELSE IF Len(addrs) > 0 THEN addrs[1].email_address
    ELSE ""

\* The table gained exactly one row, it is for the event's user with the
\* given email, and the answer is 200 "User created successfully".
OneUserAdded(email) ==
    /\ startUsers \subseteq users
    /\ Cardinality(users \ startUsers) = 1
    /\ \A u \in users \ startUsers :
          /\ u.clerk_user_id = EventUser.id
          /\ u.first_name = EventUser.first_name
          /\ u.last_name = EventUser.last_name
          /\ u.email = email
          /\ ~u.deleted
          /\ response.body.user_id = u.id
          /\ \A v \in startUsers : v.id # u.id
    /\ response.status = 200
    /\ response.body.message = "User created successfully"

\* The insert was refused: 500 "Failed to create user", table unchanged.
CreateRefused ==
    /\ response = ErrorResponse(500, "Failed to create user")
    /\ users = startUsers

\* Some row, deleted or not, carried the event's clerk id already.
KnownClerkID == \E u \in startUsers : u.clerk_user_id = EventUser.id

\* C26 as stated: a validly signed user.created event adds exactly one user
\* with the event's clerk id and names and with the primary address,
\* otherwise the first listed address, otherwise "", and the answer is 200
\* "User created successfully" (a refusal by a failing store aside).
C26_CreatedAddsUser ==
    EventAnswered("user.created") =>
        \/ OneUserAdded(PrimaryOrFirst(EventUser.email_addresses))
        \/ CreateRefused /\ ~KnownClerkID

\* C26: a validly signed user.created event whose clerk id no row carries
\* yet, and whose insert the store accepts, adds exactly one user with the
\* event's clerk id and names and with the address of the first primary
\* entry if that is not empty, otherwise the first listed address, otherwise
\* "", and the answer is 200 "User created successfully"; when a row,
\* deleted or not, carries the clerk id already, or the store refuses, the
\* answer is 500 "Failed to create user" and the table is unchanged.
C26_CreatedAddsNewUser ==
    EventAnswered("user.created") =>
        IF KnownClerkID THEN CreateRefused
        ELSE \/ OneUserAdded(NonEmptyPrimaryOrFirst(EventUser.email_addresses))
             \/ CreateRefused

\* A user was created from an event whose primary entry has an empty
\* address: the row has the first listed address.
C26_Witness ==
    /\ EventAnswered("user.created")
    /\ EventUser.id = "c4"
    /\ response.status = 200
    /\ \E u \in users \ startUsers :
          u.clerk_user_id = "c4" /\ u.email = "other@example.com"

\* A user.created event for a clerk id that a soft-deleted row carries was
\* answered 500.
C26_WitnessKnown ==
    /\ EventAnswered("user.created")
    /\ EventUser.id = "c2"
    /\ \E u \in startUsers : u.clerk_user_id = "c2" /\ u.deleted
    /\ CreateRefused



\* The non-deleted rows that carried the event's clerk id.
KnownLive ==
    {u \in startUsers : u.clerk_user_id = EventUser.id /\ ~u.deleted}

\* Row v is row u with the event's email and names, all else as it was.
Updated(u, v) ==
    /\ v.id = u.id
    /\ v.clerk_user_id = u.clerk_user_id
    /\ v.deleted = u.deleted
    /\ v.email = NonEmptyPrimaryOrFirst(EventUser.email_addresses)
    /\ v.first_name = EventUser.first_name
    /\ v.last_name = EventUser.last_name

\* Row v is row u with its deleted marker set, all else as it was.
SoftDeleted(u, v) == v.deleted /\ v = [u EXCEPT !.deleted = TRUE]

C27_WitnessNotFound ==
    /\ EventAnswered("user.updated")
    /\ \E u \in startUsers : u.clerk_user_id = EventUser.id /\ u.deleted
    /\ response.status = 404

\* The live user of clerk id c1 was soft-deleted.
C27_WitnessDeleted ==
    /\ EventAnswered("user.deleted")
    /\ response.status = 200
    /\ \E u \in KnownLive : [u EXCEPT !.deleted = TRUE] \in users



----------------------------------------------------------------------------
(* Bounds on the streaks *)

\* C28: in every StreakInfo that CalculateStreaks returns,
\* 0 <= current <= longest, longest is at most the number of distinct
\* session dates, and longest >= 1 whenever the user has a non-deleted
\* session.
C28_StreakBounds ==
    StreaksReturned =>
        LET got == result.data.streaks
            live == {s \in sessions : s.user_id = args.user /\ ~s.deleted}
        IN  /\ 0 <= got.current
            /\ got.current <= got.longest
            /\ got.longest
                  <= Cardinality({DayOf(s.created_at) : s \in live})
            /\ live # {} => got.longest >= 1

\* A call returned current = longest = 3 for more than 4 distinct dates,
\* two of the live sessions being of one day.
C28_Witness ==
    /\ StreaksReturned
    /\ result.data.streaks = [current |-> 3, longest |-> 3]
    /\ Cardinality(LiveDays(args.user)) > 4
    /\ Cardinality({s \in sessions : s.user_id = args.user /\ ~s.deleted})
          > Cardinality(LiveDays(args.user))



----------------------------------------------------------------------------
(* Paging *)

\* The client has begun to page; the last page has come.  (Under
\* SpecPaging.)
Paging == prev.begun
PagedThrough == prev.begun /\ ~prev.has_more

\* The ids of the rows the pages have brought, in order.
PagedIDs == [i \in 1..Len(prev.sessions) |-> prev.sessions[i].id]

\* C29: paging through GetSessions by passing each next_id as the next
\* last_id until has_more is false returns no session twice, and returns
\* every session of the caller that is non-deleted during the whole
\* traversal exactly once, also with CreateSession and DeleteSession
\* requests of the same user between the page requests.
C29_PagingReturnsEachOnce ==
    /\ Paging =>
          \A i, j \in 1..Len(PagedIDs) : PagedIDs[i] = PagedIDs[j] => i = j
    /\ PagedThrough =>
          \A s \in prev.always :
              Cardinality({i \in 1..Len(PagedIDs) : PagedIDs[i] = s.id}) = 1

\* A traversal of three pages or more has ended; a session was created and
\* one was deleted meanwhile, and four sessions were live throughout.
C29_Witness ==
    /\ PagedThrough
    /\ pc = "idle"
    /\ Cardinality(prev.always) = 4
    /\ Len(prev.sessions) >= 5
    /\ \E s \in sessions : s.user_id = "u1" /\ s.id = 8 /\ s.id \notin
          {PagedIDs[i] : i \in 1..Len(PagedIDs)}
    /\ \E s \in sessions : s.user_id = "u1" /\ s.deleted /\ s.id \in
          {PagedIDs[i] : i \in 1..Len(PagedIDs)}



----------------------------------------------------------------------------
(* Deleted sessions stay deleted *)

\* The sessions for which DeleteSession has succeeded.
Gone == {s \in sessions : s.deleted}

\* C30: after DeleteSession has succeeded for a session, the session stays
\* soft-deleted, no later GetSessions response of any user contains it, and
\* every later DeleteSession for its id by the same user answers 404
\* "Session not found" and changes nothing in the store.
C30_DeletedStaysDeleted ==
    [][/\ \A s \in Gone : s \in sessions'
       /\ (pc' = "done" /\ request'.handler = "GetSessions"
             /\ response'.status = 200) =>
              \A i \in 1..Len(response'.body.sessions) :
                  \A s \in Gone : response'.body.sessions[i].id # s.id
       /\ (pc = "idle" /\ pc' = "done" /\ request'.handler = "DeleteSession"
             /\ request'.user.kind = "User"
             /\ \E s \in Gone : /\ s.id = IDMeant(request'.id)
                                 /\ s.user_id = request'.user.id) =>
              /\ response' = ErrorResponse(404, "Session not found")
              /\ sessions' = sessions]_vars

\* u1 asked again to delete its session 2, deleted before; the answer was
\* 404 and the table is as it was.
C30_Witness ==
    /\ DeleteAnswered
    /\ request.user.id = "u1"
    /\ IDMeant(request.id) = 2
    /\ \E s \in startSessions : s.id = 2 /\ s.user_id = "u1" /\ s.deleted
    /\ response = ErrorResponse(404, "Session not found")
    /\ sessions = startSessions

\* GetSessions answered u1 with a page while a session of u1 was deleted.
C30_WitnessPage ==
    /\ Answered("GetSessions")
    /\ response.status = 200
    /\ Len(response.body.sessions) >= 2
    /\ \E s \in startSessions : s.user_id = request.user.id /\ s.deleted


============================================================================
